---- MODULE Spec2Model ----
(***************************************************************************)
(* Model of the acquisition -> conversion -> edge detection -> cycle       *)
(* segmentation -> windowing pipeline of serial_plotter_pyqt_dual_axis_v9. *)
(*                                                                         *)
(* Time is counted in whole seconds (perf_counter differences are floats   *)
(* in the program).  Converted values are kept as integers by storing them *)
(* multiplied by the unit of their channel type.  Sequences are 1-based,   *)
(* so a channel index of the program is one less than the index used here, *)
(* and 0 stands for None.                                                  *)
(***************************************************************************)
EXTENDS Integers, Sequences, FiniteSets, TLC

\* ------------------------------------------------------------- bounds
MaxSamples == 4          \* samples the acquisition side produces in a run
MaxQueue == 1            \* samples the acquisition side runs ahead by
MaxDt == 3               \* largest gap, in seconds, between two samples

\* ------------------------------------------------- program constants
DebounceSeconds == 2     \* "> 2.0" in the wait for the next cycle
BatchMax == 20           \* "processed_count < 20"
NDisplayPoints == 2      \* n_display_points as configured for the session
ReadPeriod == 2          \* read_period (monitoring_time_s) of the session

adc_resolution == 2 ^ (16 - 1)
i_threshold_low == (20 * adc_resolution) \div 100
i_threshold_high == (80 * adc_resolution) \div 100
Qmax == 20000

\* A converted value is stored as an integer: the physical value multiplied
\* by the unit of its channel type.
TempUnit == 4096
PressUnit == 627 * 512
UnitOf(ch_type) ==
    CASE ch_type = "T" -> TempUnit
      [] ch_type = "P" -> PressUnit
      [] OTHER -> 1
\* voltage * (10 / 2^15) * 100, in 1/TempUnit degrees
TempFactor == (10 * 100 * TempUnit) \div adc_resolution
\* voltage * (xmax0 / 2^15) with xmax0 = Qmax / 2.500, in 1/PressUnit bar
PressFactor0 == (((Qmax * 10) \div 25) * 627) \div 64
\* voltage * (xmax1 / 2^15) with xmax1 = Qmax / 2.508, in 1/PressUnit bar
PressFactor1 == ((Qmax * 250) \div 64)

channel_types == <<"T", "I">>
n_sensors == Len(channel_types)

\* index of the first channel of type I, 0 when there is none
i_channel_index ==
    IF \E i \in 1..Len(channel_types) : channel_types[i] = "I"
    THEN CHOOSE i \in 1..Len(channel_types) :
            /\ channel_types[i] = "I"
            /\ \A j \in 1..(i - 1) : channel_types[j] # "I"
    ELSE 0

\* ------------------------------------------------------------- inputs
\* What one read of the device delivers: <<Temperature code, Inductive
\* code, seconds since the previous read>>.  The Inductive codes are 5 %,
\* 50 % and 95 % of full scale.
Reads ==
    { <<0,     1638,  1>>,
      <<4096,  16384, 1>>,
      <<8192,  31129, 1>>,
      <<12288, 31129, MaxDt>> }

\* ------------------------------------------------------ channel model
\* faulty variant: the position among all channels
pressure_idx_of_all(types, i) == i - 1

\* sum(1 for j in range(i) if self.channel_types[j] == 'P')
pressure_idx(types, i) ==
    Cardinality({j \in 1..(i - 1) : types[j] = "P"})

\* the loop body of convert_voltage_to_units for the channel types `types`
ConvertChannel(types, i, voltage) ==
    IF i <= Len(types)
    THEN CASE types[i] = "T" -> voltage * TempFactor
           [] types[i] = "P" ->
                 IF pressure_idx(types, i) % 2 = 0
                 THEN voltage * PressFactor0
                 ELSE voltage * PressFactor1
           [] OTHER ->
                 IF voltage < i_threshold_low THEN 0
                 ELSE IF voltage > i_threshold_high THEN 1
                 ELSE IF 2 * voltage < i_threshold_low + i_threshold_high
                      THEN 0 ELSE 1
    ELSE voltage

ConvertOne(i, voltage) == ConvertChannel(channel_types, i, voltage)

convert_voltage_to_units(voltage_values) ==
    [i \in 1..Len(voltage_values) |-> ConvertOne(i, voltage_values[i])]

\* ------------------------------------------------------ edge detector
\* faulty variant: in the band the closer threshold decides
NewEdgeState_midpoint(prev, raw_value) ==
    IF raw_value < i_threshold_low THEN "LOW"
    ELSE IF raw_value > i_threshold_high THEN "HIGH"
    ELSE IF 2 * raw_value < i_threshold_low + i_threshold_high THEN "LOW"
    ELSE "HIGH"

\* new_state of process_i_channel_transition; prev is "NONE", "LOW" or "HIGH"
NewEdgeState(prev, raw_value) ==
    IF raw_value < i_threshold_low THEN "LOW"
    ELSE IF raw_value > i_threshold_high THEN "HIGH"
    ELSE IF prev # "NONE" THEN prev ELSE "LOW"

\* faulty variant: an event for the level reached, changed or not
EdgeOf_level(prev, new) ==
    IF prev # "NONE"
    THEN IF new = "HIGH" THEN "UP" ELSE "DOWN"
    ELSE "NONE"

\* the transition appended for the step prev -> new: "UP", "DOWN" or "NONE"
EdgeOf(prev, new) ==
    IF prev # "NONE" /\ new # prev
    THEN IF prev = "LOW" /\ new = "HIGH" THEN "UP"
         ELSE IF prev = "HIGH" /\ new = "LOW" THEN "DOWN"
         ELSE "NONE"
    ELSE "NONE"

\* ----------------------------------------------------- sample helpers
x_time_of(serData) == serData[Len(serData)]
ypoints_raw_of(serData) == SubSeq(serData, 1, Len(serData) - 1)

VARIABLES
    \* acquisition side and the queue
    dataQueue, clock, produced, reading, readQueuePending,
    \* MainWindow: edge detector
    i_channel_state, mw_transitions,
    \* GraphThread
    gpc, stopThread, readQSigRec, processed_count,
    cycle_mode, waiting_for_first_cycle, cycle_active, current_cycle,
    cycle_start_time, last_cycle_end_time, cycle_xdata, cycle_ydata,
    xdata, ydata, ydata_raw, cycle_numbers,
    xdata_plts, ydata_plts, y_min_hist, y_max_hist, i_channel_transitions,
    \* what the presentation consumer has received
    signals, graphUpdate, arrowsUpdate, yAxisUpdates, monitTimeEnd, graphEnd,
    \* history: one entry per sample taken from the queue
    processed,
    \* DaqThread: position in run(), flags, failure counting, signals emitted
    dpc, IsConnected, startsigrec, stopsigrec, daq_stopThread,
    consecutive_failures, msgLst, readErrors, connectSig,
    \* history: the failed reads in a row so far, the samples dropped at put
    fail_run, dropped,
    \* session count and history of the Edge Detector driven sample by sample
    session, edge_log,
    \* history: what the user-interface thread itself has done to the device
    ui_ops,
    \* the configured channel types, and a history of the reads converted
    \* under them
    cfg_types, conv_log,
    \* GraphThread.run: perf_counter() counted from the entry of run(), t0
    \* and timer; history: the display snapshots emitted
    wall, t0, timer, snapshots,
    \* configuration: the defaults loaded at import, the configuration of
    \* the MainWindow, the open DaqConfigWindow, what configSignal carried in
    \* the last step, findDeviceButton, the configuration a session runs with
    CONFIG_DEFAULTS, mw_config, ModuleSelectWin, configSignal, findDeviceButton,
    session_config

daqVars == <<dataQueue, clock, produced, reading, readQueuePending>>
edgeVars == <<i_channel_state, mw_transitions, i_channel_transitions>>
cycleVars == <<waiting_for_first_cycle, cycle_active, current_cycle,
               cycle_start_time, last_cycle_end_time, cycle_xdata, cycle_ydata>>
recordVars == <<xdata, ydata, ydata_raw, cycle_numbers>>
windowVars == <<xdata_plts, ydata_plts, y_min_hist, y_max_hist, yAxisUpdates>>
outVars == <<signals, graphUpdate, arrowsUpdate, monitTimeEnd, graphEnd>>
\* graphUpdate and arrowsUpdate hold what the last step of run() emitted
NoSnapshot == graphUpdate' = <<>> /\ arrowsUpdate' = <<>>
acqVars == <<dpc, IsConnected, startsigrec, stopsigrec, daq_stopThread,
             consecutive_failures, msgLst, readErrors, connectSig, fail_run,
             dropped>>
probeVars == <<session, edge_log, ui_ops>>
convVars == <<cfg_types, conv_log>>
timerVars == <<wall, t0, timer, snapshots>>
cfgVars == <<CONFIG_DEFAULTS, mw_config, ModuleSelectWin, configSignal,
            findDeviceButton, session_config>>
graphVars == <<gpc, stopThread, readQSigRec, processed_count, cycle_mode,
               processed>>
vars == <<daqVars, edgeVars, cycleVars, recordVars, windowVars, outVars,
          graphVars, acqVars, probeVars, convVars, timerVars, cfgVars>>

\* ------------------------------------------------- cycle segmenter
\* faulty variant: a value in the hysteresis band counts as HIGH
i_is_high_of_band_high(raw_i_value, active) ==
    raw_i_value >= i_threshold_low

\* level of the trigger as GraphThread.run derives it for one sample
i_is_high_of(raw_i_value, active) ==
    IF raw_i_value > i_threshold_high THEN TRUE
    ELSE IF raw_i_value < i_threshold_low THEN FALSE
    ELSE active

\* faulty variant: the absolute timestamp instead of the cycle-relative one
x_relative_of_absolute(x_time, start) == x_time

x_relative_of(x_time, start) == x_time - start

\* the condition under which a cycle starts while waiting for the next one
StartsNextCycle(i_is_high, x_time, last_end) ==
    i_is_high /\ (x_time - last_end) > DebounceSeconds

\* faulty variant: the rows as saved, not one series per channel
Transposed_rows(rows) == rows

\* [list(y) for y in zip(*rows)] if rows else []
Transposed(rows) ==
    IF rows = <<>> THEN <<>>
    ELSE [c \in 1..Len(rows[1]) |-> [k \in 1..Len(rows) |-> rows[k][c]]]

PhaseOf(cycle, waiting, active) ==
    IF ~cycle THEN "NONE"
    ELSE IF waiting THEN "WAITING"
    ELSE IF active THEN "ACTIVE"
    ELSE "IDLE"

Phase == PhaseOf(cycle_mode, waiting_for_first_cycle, cycle_active)

\* ---------------------------------------------------- display window
\* the bounded append of update_graph_data_only
AppendWindow(w, v) ==
    IF Len(w) <= NDisplayPoints THEN Append(w, v) ELSE Tail(w) \o <<v>>

\* faulty variant: the window of the previous cycle is kept
ClearedWindow_kept(w) == w

\* self.xdata_plts = [] and self.ydata_plts[i] = [] at the start of a cycle
ClearedWindow(w) == <<>>

\* the unbounded append of update_graph_data_cycle_mode
AppendCycleWindow(w, v) == Append(w, v)

\* faulty variant: the Inductive channel is scaled like the others
is_i_channel_never(i) == FALSE

is_i_channel(i) == i_channel_index # 0 /\ i = i_channel_index

\* historical minimum / maximum: <<>> stands for +inf / -inf
NewMin(h, i, new_y) ==
    IF i <= Len(new_y) /\ ~is_i_channel(i) /\ (h = <<>> \/ new_y[i] < h[1])
    THEN <<new_y[i]>> ELSE h

NewMax(h, i, new_y) ==
    IF i <= Len(new_y) /\ ~is_i_channel(i) /\ (h = <<>> \/ new_y[i] > h[1])
    THEN <<new_y[i]>> ELSE h

Abs(v) == IF v < 0 THEN 0 - v ELSE v

\* y_min_with_margin and y_max_with_margin of channel i, multiplied by 10
\* (the margin is a tenth of the range: (1.2 - 1) / 2)
AxisRange(i, mins, maxs) ==
    IF is_i_channel(i) THEN <<0, 10 * 1>>
    ELSE IF mins[i] # <<>> /\ maxs[i] # <<>>
    THEN LET y_range == maxs[i][1] - mins[i][1]
             margin == IF y_range = 0
                       THEN IF maxs[i][1] # 0 THEN Abs(maxs[i][1])
                            ELSE 10 * UnitOf(channel_types[i])
                       ELSE y_range
         IN <<10 * mins[i][1] - margin, 10 * maxs[i][1] + margin>>
    ELSE IF i <= Len(channel_types)
    THEN CASE channel_types[i] = "T" -> <<0, 10 * 100 * TempUnit>>
           [] channel_types[i] = "P" -> <<0, 10 * 10 * PressUnit>>
           [] OTHER -> <<0, 10 * 1>>
    ELSE <<0, 10 * 100>>

\* body shared by update_graph_data_only (bounded) and
\* update_graph_data_cycle_mode (not bounded): the per-channel series, the
\* historical extremes and the axis notification
UpdateSeries(new_y, bounded) ==
    LET mins == [i \in 1..n_sensors |-> NewMin(y_min_hist[i], i, new_y)]
        maxs == [i \in 1..n_sensors |-> NewMax(y_max_hist[i], i, new_y)]
        y_range_updated == mins # y_min_hist \/ maxs # y_max_hist
    IN /\ ydata_plts' = [i \in 1..Len(ydata_plts) |->
                            IF i > Len(new_y) THEN ydata_plts[i]
                            ELSE IF bounded
                            THEN AppendWindow(ydata_plts[i], new_y[i])
                            ELSE AppendCycleWindow(ydata_plts[i], new_y[i])]
       /\ y_min_hist' = mins
       /\ y_max_hist' = maxs
       /\ yAxisUpdates' =
             IF y_range_updated
             THEN Append(yAxisUpdates,
                         [i \in 1..n_sensors |-> AxisRange(i, mins, maxs)])
             ELSE yAxisUpdates

update_graph_data_only(new_x, new_y) ==
    /\ xdata_plts' = AppendWindow(xdata_plts, new_x)
    /\ UpdateSeries(new_y, TRUE)

update_graph_data_cycle_mode(new_x, new_y) ==
    /\ xdata_plts' = AppendCycleWindow(xdata_plts, new_x)
    /\ UpdateSeries(new_y, FALSE)

\* ------------------------------------------------------- monitoring
\* faulty variant: the limit is reached one second late
TimeLimitReached_late(waiting, xd, period) ==
    ~waiting /\ Len(xd) > 0 /\ xd[Len(xd)] > period + 1

\* faulty variant: the limit is reached at the monitoring duration itself
TimeLimitReached_inclusive(waiting, xd, period) ==
    ~waiting /\ Len(xd) > 0 /\ xd[Len(xd)] >= period

TimeLimitReached(waiting, xd, period) ==
    ~waiting /\ Len(xd) > 0 /\ xd[Len(xd)] > period

\* faulty variant: the converted values sent in place of the raw ones
FinalExport_converted_twice(xd, yd, yr, cn) == <<xd, yd, yd, cn>>

\* the arguments of graphEndSig.emit
FinalExport(xd, yd, yr, cn) == <<xd, yd, yr, cn>>

\* faulty variant: the cycle numbers are not stored
receiveXYData_without_cycles(export) ==
    <<export[1], export[2], export[3], <<>>>>

\* MainWindow.receiveXYData, the slot of graphEndSig: xdata, ydata,
\* ydata_raw and cycle_numbers_data of the MainWindow
receiveXYData(export) ==
    <<export[1], export[2], export[3],
      IF export[4] # <<>> THEN export[4] ELSE <<>>>>

\* -------------------------------------------------- configuration
MaxCfgChannels == 2      \* channels offered by the DaqConfigWindow

\* self.available_channels, numbered from 1
available_channels == 1..MaxCfgChannels

ChannelTypes == {"T", "P", "I"}

\* what load_config_defaults can return: the built-in defaults (the last
\* channel Inductive, cycle mode on), and the built-in defaults updated
\* from a daq_config_defaults.json that makes every channel Inductive, or
\* none
DefaultsLoaded ==
    { [channels |-> [i \in available_channels |-> i],
       channel_types |-> [i \in available_channels |->
                            IF i = MaxCfgChannels THEN "I" ELSE "T"],
       cycle_mode |-> TRUE],
      [channels |-> [i \in available_channels |-> i],
       channel_types |-> [i \in available_channels |-> "I"],
       cycle_mode |-> TRUE],
      [channels |-> [i \in available_channels |-> i],
       channel_types |-> [i \in available_channels |-> "T"],
       cycle_mode |-> TRUE] }

\* the form of the DaqConfigWindow is a record of the channels checked,
\* the type chosen for every channel, the cycle mode checkbox, whether the
\* text fields hold numbers within their ranges, and whether the last
\* accept_config ended in a warning; the forms one change of a widget away
FormEdits(form) ==
    LET edited == [form EXCEPT !.warned = FALSE]
    IN {[edited EXCEPT !.checked = IF ch \in form.checked
                                   THEN form.checked \ {ch}
                                   ELSE form.checked \cup {ch}] :
           ch \in available_channels}
       \cup {[edited EXCEPT !.types[ch] = t] :
                ch \in available_channels, t \in ChannelTypes}
       \cup {[edited EXCEPT !.cycle = ~form.cycle],
             [edited EXCEPT !.fields_ok = ~form.fields_ok]}

\* DaqConfigWindow.loadDefaults
loadDefaults(defaults) ==
    [checked |-> {defaults.channels[i] : i \in 1..Len(defaults.channels)}
                    \cap available_channels,
     types |-> [ch \in available_channels |->
                  IF \E i \in 1..Len(defaults.channels) :
                        /\ defaults.channels[i] = ch
                        /\ i <= Len(defaults.channel_types)
                  THEN defaults.channel_types[
                          CHOOSE i \in 1..Len(defaults.channels) :
                             defaults.channels[i] = ch]
                  ELSE "T"],
     cycle |-> defaults.cycle_mode,
     fields_ok |-> TRUE,
     warned |-> FALSE]

\* the channels checked among the first n, in the order of the form
RECURSIVE SelectedChannels(_, _)
SelectedChannels(form, n) ==
    IF n = 0 THEN <<>>
    ELSE SelectedChannels(form, n - 1)
            \o (IF n \in form.checked THEN <<n>> ELSE <<>>)

\* channels, channel_types and cycle_mode as accept_config collects them
FormConfig(form) ==
    LET channels == SelectedChannels(form, MaxCfgChannels)
    IN [channels |-> channels,
        channel_types |-> [k \in 1..Len(channels) |-> form.types[channels[k]]],
        cycle_mode |-> form.cycle]

\* i_count of accept_config
i_count_of(types) == Cardinality({k \in 1..Len(types) : types[k] = "I"})

\* faulty variant: cycle mode is accepted without an Inductive channel
ConfigValid_cycle_unchecked(config, fields_ok) ==
    /\ fields_ok
    /\ Len(config.channels) # 0
    /\ ~(i_count_of(config.channel_types) > 1)

\* the validations of accept_config: none of its early returns is taken
ConfigValid(config, fields_ok) ==
    /\ fields_ok
    /\ Len(config.channels) # 0
    /\ ~(i_count_of(config.channel_types) > 1)
    /\ ~(config.cycle_mode /\ i_count_of(config.channel_types) = 0)

\* MainWindow.__init__ under the defaults loaded
MainWindowConfig(defaults) ==
    [channels |-> defaults.channels,
     channel_types |-> defaults.channel_types,
     cycle_mode |-> FALSE]

\* the program after MainWindow.__init__, under the built-in defaults
ConfigIdle ==
    /\ CONFIG_DEFAULTS =
          [channels |-> [i \in available_channels |-> i],
           channel_types |-> [i \in available_channels |->
                                IF i = MaxCfgChannels THEN "I" ELSE "T"],
           cycle_mode |-> TRUE]
    /\ mw_config = MainWindowConfig(CONFIG_DEFAULTS)
    /\ ModuleSelectWin = <<>>
    /\ configSignal = <<>>
    /\ findDeviceButton = FALSE
    /\ session_config = <<>>

\* ---------------------------------------------------------------- Init
\* The state after MainWindow.reset_Data_n_Plot_Vars and GraphThread.__init__
SessionStart ==
    /\ dataQueue = <<>>
    /\ clock = 0
    /\ produced = 0
    /\ reading = TRUE
    /\ readQueuePending = 0
    /\ i_channel_state = "NONE"
    /\ mw_transitions = <<>>
    /\ i_channel_transitions = <<>>
    /\ gpc = "start"
    /\ stopThread = FALSE
    /\ readQSigRec = FALSE
    /\ processed_count = 0
    /\ cycle_mode \in BOOLEAN
    /\ waiting_for_first_cycle = cycle_mode
    /\ cycle_active = FALSE
    /\ current_cycle = 0
    /\ cycle_start_time = 0
    /\ last_cycle_end_time = 0
    /\ cycle_xdata = <<>>
    /\ cycle_ydata = <<>>
    /\ xdata = <<>>
    /\ ydata = <<>>
    /\ ydata_raw = <<>>
    /\ cycle_numbers = <<>>
    /\ xdata_plts = <<>>
    /\ ydata_plts = [i \in 1..n_sensors |-> <<>>]
    /\ y_min_hist = [i \in 1..n_sensors |-> <<>>]
    /\ y_max_hist = [i \in 1..n_sensors |-> <<>>]
    /\ signals = <<>>
    /\ graphUpdate = <<>>
    /\ arrowsUpdate = <<>>
    /\ yAxisUpdates = <<>>
    /\ monitTimeEnd = 0
    /\ graphEnd = <<>>
    /\ processed = <<>>
    /\ session = 1
    /\ edge_log = <<>>
    /\ ui_ops = {}
    /\ wall = 0
    /\ t0 = 0
    /\ timer = 0
    /\ snapshots = <<>>

\* SessionStart in a program run under the built-in defaults
SessionInit == SessionStart /\ ConfigIdle

\* the configuration of the session, nothing converted under it yet
ConvIdle ==
    /\ cfg_types = channel_types
    /\ conv_log = <<>>

\* SessionInit with the acquisition loop connected and reading
Init ==
    /\ SessionInit
    /\ ConvIdle
    /\ dpc = "inner"
    /\ IsConnected = TRUE
    /\ startsigrec = TRUE
    /\ stopsigrec = FALSE
    /\ daq_stopThread = FALSE
    /\ consecutive_failures = 0
    /\ readErrors = 0
    /\ connectSig = <<TRUE>>
    /\ msgLst = <<>>
    /\ fail_run = 0
    /\ dropped = 0

\* ------------------------------------------------ acquisition side
\* DaqThread.run, one successful pass of the read loop: the sample is
\* stamped with the time since read start and put on the queue, and
\* readQueueSig is emitted (queued for the thread that owns the GraphThread
\* object).
DaqPutUpTo(ahead) ==
    /\ reading
    /\ produced < MaxSamples
    /\ Len(dataQueue) < ahead
    /\ \E rd \in Reads :
          /\ clock' = clock + rd[3]
          /\ dataQueue' = Append(dataQueue, <<rd[1], rd[2], clock + rd[3]>>)
    /\ produced' = produced + 1
    /\ readQueuePending' = readQueuePending + 1
    /\ UNCHANGED <<reading, edgeVars, cycleVars, recordVars, windowVars, outVars,
                   gpc, stopThread, readQSigRec, processed_count, cycle_mode,
                   acqVars, probeVars, convVars, timerVars, cfgVars,
                   processed>>

\* the acquisition side at most MaxQueue samples ahead of the processing
DaqPut == DaqPutUpTo(MaxQueue)

\* GraphThread.readQueue, the slot run for one queued readQueueSig
readQueue ==
    /\ readQueuePending > 0
    /\ readQueuePending' = readQueuePending - 1
    /\ readQSigRec' = TRUE
    /\ UNCHANGED <<dataQueue, clock, produced, reading, edgeVars, cycleVars,
                   recordVars, windowVars, outVars, gpc, stopThread,
                   processed_count, cycle_mode, processed, acqVars,
                   probeVars, convVars, timerVars, cfgVars>>

\* MainWindow.stopReading: stopSig reaches DaqThread.stopSignalRec and
\* GraphThread.stop_Thread.  It may be requested at any time, also again and
\* after the loop has ended.
stop_Thread ==
    /\ stopThread' = TRUE
    /\ reading' = FALSE
    /\ UNCHANGED <<dataQueue, clock, produced, readQueuePending, edgeVars,
                   cycleVars, recordVars, windowVars, outVars, gpc, readQSigRec,
                   processed_count, cycle_mode, processed, acqVars,
                   probeVars, convVars, timerVars, cfgVars>>

\* ------------------------------------------------ GraphThread.run
\* faulty variant: run() enters its loop without cycleWaitingSig
RunStart_silent ==
    /\ gpc = "start"
    /\ gpc' = "loop"
    /\ NoSnapshot
    /\ UNCHANGED <<daqVars, edgeVars, cycleVars, recordVars, windowVars,
                   signals, monitTimeEnd, graphEnd, stopThread, readQSigRec,
                   processed_count, cycle_mode, processed, acqVars,
                   probeVars, convVars, timerVars, cfgVars>>

\* entry of run(): cycleWaitingSig in cycle mode
RunStart ==
    /\ gpc = "start"
    /\ gpc' = "loop"
    /\ signals' = IF cycle_mode
                  THEN Append(signals, [sig |-> "cycleWaiting"])
                  ELSE signals
    /\ NoSnapshot
    /\ UNCHANGED <<daqVars, edgeVars, cycleVars, recordVars, windowVars,
                   monitTimeEnd, graphEnd, stopThread, readQSigRec,
                   processed_count, cycle_mode, processed, acqVars,
                   probeVars, convVars, timerVars, cfgVars>>

\* head of the outer loop: the stop check and the readQSigRec gate, where
\* timer = t1 - t0 is taken (new_timer).  With readQSigRec unset the
\* iteration is sleep(0.001) and the monitoring time limit, which reads data
\* of this thread only.
LoopHeadWith(new_timer) ==
    /\ gpc = "loop"
    /\ IF stopThread
       THEN /\ gpc' = "final"
            /\ UNCHANGED <<processed_count, monitTimeEnd, stopThread, timer>>
       ELSE IF readQSigRec
       THEN /\ gpc' = "batch"
            /\ processed_count' = 0
            /\ timer' = new_timer
            /\ UNCHANGED <<monitTimeEnd, stopThread>>
       ELSE /\ gpc' = "loop"
            /\ UNCHANGED <<processed_count, timer>>
            /\ IF TimeLimitReached(waiting_for_first_cycle, xdata, ReadPeriod)
               THEN /\ monitTimeEnd' = monitTimeEnd + 1
                    /\ stopThread' = TRUE
               ELSE UNCHANGED <<monitTimeEnd, stopThread>>
    /\ NoSnapshot
    /\ UNCHANGED <<daqVars, edgeVars, cycleVars, recordVars, windowVars,
                   signals, graphEnd, readQSigRec, cycle_mode, processed,
                   acqVars, probeVars, convVars, cfgVars, wall, t0,
                   snapshots>>

\* the head of the outer loop, the time of the wake left open
LoopHead == LoopHeadWith(timer)

\* faulty variant: the batch is left one sample later
BatchHead_one_more ==
    /\ gpc = "batch"
    /\ gpc' = IF processed_count <= BatchMax /\ ~stopThread THEN "get"
              ELSE "after"
    /\ NoSnapshot
    /\ UNCHANGED <<daqVars, edgeVars, cycleVars, recordVars, windowVars,
                   signals, monitTimeEnd, graphEnd, stopThread, readQSigRec,
                   processed_count, cycle_mode, processed, acqVars,
                   probeVars, convVars, timerVars, cfgVars>>

\* condition of the batch loop
BatchHead ==
    /\ gpc = "batch"
    /\ gpc' = IF processed_count < BatchMax /\ ~stopThread THEN "get"
              ELSE "after"
    /\ NoSnapshot
    /\ UNCHANGED <<daqVars, edgeVars, cycleVars, recordVars, windowVars,
                   signals, monitTimeEnd, graphEnd, stopThread, readQSigRec,
                   processed_count, cycle_mode, processed, acqVars,
                   probeVars, convVars, timerVars, cfgVars>>

\* get_nowait on an empty queue raises; the bare except leaves the batch
GetEmpty ==
    /\ gpc = "get"
    /\ dataQueue = <<>>
    /\ gpc' = "after"
    /\ NoSnapshot
    /\ UNCHANGED <<daqVars, edgeVars, cycleVars, recordVars, windowVars,
                   signals, monitTimeEnd, graphEnd, stopThread, readQSigRec,
                   processed_count, cycle_mode, processed, acqVars,
                   probeVars, convVars, timerVars, cfgVars>>

\* --- the four ways run() treats a dequeued sample --------------------

\* faulty variant: the sample that starts the first cycle is saved at time 0
WaitingBranch_saves_start(x_time, ypoints_raw, ypoints_converted, i_is_high) ==
    /\ IF stopThread
       THEN /\ gpc' = "after"
            /\ UNCHANGED <<processed_count, cycleVars, signals, recordVars,
                           windowVars>>
       ELSE /\ IF i_is_high
               THEN /\ waiting_for_first_cycle' = FALSE
                    /\ cycle_active' = TRUE
                    /\ current_cycle' = 1
                    /\ cycle_start_time' = x_time
                    /\ cycle_xdata' = <<0>>
                    /\ cycle_ydata' = <<ypoints_converted>>
                    /\ signals' = Append(signals,
                                         [sig |-> "cycleStarted", n |-> 1])
                    /\ xdata' = Append(xdata, 0)
                    /\ ydata' = Append(ydata, ypoints_converted)
                    /\ ydata_raw' = Append(ydata_raw, ypoints_raw)
                    /\ cycle_numbers' = Append(cycle_numbers, 1)
                    /\ update_graph_data_cycle_mode(0, ypoints_converted)
                    /\ UNCHANGED last_cycle_end_time
               ELSE UNCHANGED <<cycleVars, signals, recordVars, windowVars>>
            /\ processed_count' = processed_count + 1
            /\ gpc' = "batch"

\* waiting_for_first_cycle: the sample is never saved
WaitingBranch(x_time, ypoints_raw, ypoints_converted, i_is_high) ==
    /\ IF stopThread
       THEN /\ gpc' = "after"
            /\ UNCHANGED <<processed_count, cycleVars, signals>>
       ELSE /\ IF i_is_high
               THEN /\ waiting_for_first_cycle' = FALSE
                    /\ cycle_active' = TRUE
                    /\ current_cycle' = 1
                    /\ cycle_start_time' = x_time
                    /\ cycle_xdata' = <<>>
                    /\ cycle_ydata' = <<>>
                    /\ signals' = Append(signals,
                                         [sig |-> "cycleStarted", n |-> 1])
                    /\ UNCHANGED last_cycle_end_time
               ELSE UNCHANGED <<cycleVars, signals>>
            /\ processed_count' = processed_count + 1
            /\ gpc' = "batch"
    /\ UNCHANGED <<recordVars, windowVars>>

\* faulty variant: the sample on which the cycle ends is saved as well
ActiveBranch_saves_end(x_time, ypoints_raw, ypoints_converted, i_is_high) ==
    /\ LET x_relative == x_relative_of(x_time, cycle_start_time)
       IN /\ xdata' = Append(xdata, x_relative)
          /\ ydata' = Append(ydata, ypoints_converted)
          /\ ydata_raw' = Append(ydata_raw, ypoints_raw)
          /\ cycle_numbers' = Append(cycle_numbers, current_cycle)
          /\ cycle_xdata' = Append(cycle_xdata, x_relative)
          /\ cycle_ydata' = Append(cycle_ydata, ypoints_converted)
          /\ update_graph_data_cycle_mode(x_relative, ypoints_converted)
    /\ IF i_is_high
       THEN UNCHANGED <<waiting_for_first_cycle, cycle_active, current_cycle,
                        cycle_start_time, last_cycle_end_time, signals>>
       ELSE /\ cycle_active' = FALSE
            /\ last_cycle_end_time' = x_time
            /\ signals' = Append(signals,
                                 [sig |-> "cycleEnded", n |-> current_cycle,
                                  xdata |-> cycle_xdata',
                                  ydata |-> Transposed(cycle_ydata')])
            /\ UNCHANGED <<waiting_for_first_cycle, current_cycle,
                           cycle_start_time>>
    /\ processed_count' = processed_count + 1
    /\ gpc' = "batch"

\* cycle_active: the sample is saved while the trigger is high, and ends
\* the cycle when it is low
ActiveBranch(x_time, ypoints_raw, ypoints_converted, i_is_high) ==
    /\ IF i_is_high
       THEN LET x_relative == x_relative_of(x_time, cycle_start_time)
            IN /\ xdata' = Append(xdata, x_relative)
               /\ ydata' = Append(ydata, ypoints_converted)
               /\ ydata_raw' = Append(ydata_raw, ypoints_raw)
               /\ cycle_numbers' = Append(cycle_numbers, current_cycle)
               /\ cycle_xdata' = Append(cycle_xdata, x_relative)
               /\ cycle_ydata' = Append(cycle_ydata, ypoints_converted)
               /\ update_graph_data_cycle_mode(x_relative, ypoints_converted)
               /\ UNCHANGED <<waiting_for_first_cycle, cycle_active,
                              current_cycle, cycle_start_time,
                              last_cycle_end_time, signals>>
       ELSE /\ cycle_active' = FALSE
            /\ last_cycle_end_time' = x_time
            /\ signals' = Append(signals,
                                 [sig |-> "cycleEnded", n |-> current_cycle,
                                  xdata |-> cycle_xdata,
                                  ydata |-> Transposed(cycle_ydata)])
            /\ UNCHANGED <<waiting_for_first_cycle, current_cycle,
                           cycle_start_time, cycle_xdata, cycle_ydata,
                           recordVars, windowVars>>
    /\ processed_count' = processed_count + 1
    /\ gpc' = "batch"

\* faulty variant: the numbering restarts with every cycle
NextCycleNumber_restart(n) == 1

\* self.current_cycle += 1
NextCycleNumber(n) == n + 1

\* faulty variant: the record is emptied when the next cycle starts
NextCycleBranch_drops_record(x_time, i_is_high) ==
    /\ IF StartsNextCycle(i_is_high, x_time, last_cycle_end_time)
       THEN /\ cycle_active' = TRUE
            /\ current_cycle' = NextCycleNumber(current_cycle)
            /\ cycle_start_time' = x_time
            /\ cycle_xdata' = <<>>
            /\ cycle_ydata' = <<>>
            /\ xdata_plts' = ClearedWindow(xdata_plts)
            /\ ydata_plts' = [i \in 1..Len(ydata_plts) |->
                                 ClearedWindow(ydata_plts[i])]
            /\ signals' = Append(signals, [sig |-> "cycleStarted",
                                           n |-> current_cycle'])
            /\ xdata' = <<>>
            /\ ydata' = <<>>
            /\ ydata_raw' = <<>>
            /\ cycle_numbers' = <<>>
            /\ UNCHANGED <<waiting_for_first_cycle, last_cycle_end_time,
                           y_min_hist, y_max_hist, yAxisUpdates>>
       ELSE UNCHANGED <<cycleVars, windowVars, signals, recordVars>>
    /\ processed_count' = processed_count + 1
    /\ gpc' = "batch"

\* between two cycles: the sample is never saved
NextCycleBranch(x_time, i_is_high) ==
    /\ IF StartsNextCycle(i_is_high, x_time, last_cycle_end_time)
       THEN /\ cycle_active' = TRUE
            /\ current_cycle' = NextCycleNumber(current_cycle)
            /\ cycle_start_time' = x_time
            /\ cycle_xdata' = <<>>
            /\ cycle_ydata' = <<>>
            /\ xdata_plts' = ClearedWindow(xdata_plts)
            /\ ydata_plts' = [i \in 1..Len(ydata_plts) |->
                                 ClearedWindow(ydata_plts[i])]
            /\ signals' = Append(signals, [sig |-> "cycleStarted",
                                           n |-> current_cycle'])
            /\ UNCHANGED <<waiting_for_first_cycle, last_cycle_end_time,
                           y_min_hist, y_max_hist, yAxisUpdates>>
       ELSE UNCHANGED <<cycleVars, windowVars, signals>>
    /\ UNCHANGED recordVars
    /\ processed_count' = processed_count + 1
    /\ gpc' = "batch"

\* faulty variant: the sample is tagged with the current cycle number
NormalBranch_tags_cycle(x_time, ypoints_raw, ypoints_converted) ==
    /\ xdata' = Append(xdata, x_time)
    /\ ydata' = Append(ydata, ypoints_converted)
    /\ ydata_raw' = Append(ydata_raw, ypoints_raw)
    /\ cycle_numbers' = Append(cycle_numbers, current_cycle)
    /\ update_graph_data_only(x_time, ypoints_converted)
    /\ UNCHANGED <<cycleVars, signals>>
    /\ processed_count' = processed_count + 1
    /\ gpc' = "batch"

\* cycle mode off: every sample is saved with its session-relative time
NormalBranch(x_time, ypoints_raw, ypoints_converted) ==
    /\ xdata' = Append(xdata, x_time)
    /\ ydata' = Append(ydata, ypoints_converted)
    /\ ydata_raw' = Append(ydata_raw, ypoints_raw)
    /\ update_graph_data_only(x_time, ypoints_converted)
    /\ UNCHANGED <<cycle_numbers, cycleVars, signals>>
    /\ processed_count' = processed_count + 1
    /\ gpc' = "batch"

\* faulty variant: the sample put last is taken first
Dequeue_lifo(q) == <<q[Len(q)], SubSeq(q, 1, Len(q) - 1)>>

\* get_nowait of a queue.Queue: the sample put first, and the rest
Dequeue(q) == <<Head(q), Tail(q)>>

\* body of the batch loop for one sample taken from the queue
GetSample ==
    /\ gpc = "get"
    /\ dataQueue # <<>>
    /\ LET serData == Dequeue(dataQueue)[1]
           x_time == x_time_of(serData)
           ypoints_raw == ypoints_raw_of(serData)
           has_i == i_channel_index # 0 /\ i_channel_index <= Len(ypoints_raw)
           raw_i_value == ypoints_raw[i_channel_index]
           i_is_high == IF has_i THEN i_is_high_of(raw_i_value, cycle_active)
                        ELSE FALSE
           new_state == NewEdgeState(i_channel_state, raw_i_value)
           edge == IF has_i THEN EdgeOf(i_channel_state, new_state) ELSE "NONE"
           ypoints_converted == convert_voltage_to_units(ypoints_raw)
       IN /\ dataQueue' = Dequeue(dataQueue)[2]
          /\ IF has_i
             THEN /\ i_channel_state' = new_state
                  /\ mw_transitions' =
                        IF edge # "NONE"
                        THEN Append(mw_transitions, <<x_time, edge>>)
                        ELSE mw_transitions
                  /\ i_channel_transitions' = mw_transitions'
             ELSE UNCHANGED edgeVars
          /\ IF cycle_mode
             THEN IF waiting_for_first_cycle
                  THEN WaitingBranch(x_time, ypoints_raw, ypoints_converted,
                                     i_is_high)
                  ELSE IF cycle_active
                  THEN ActiveBranch(x_time, ypoints_raw, ypoints_converted,
                                    i_is_high)
                  ELSE NextCycleBranch(x_time, i_is_high)
             ELSE NormalBranch(x_time, ypoints_raw, ypoints_converted)
          /\ processed' = Append(processed,
                [t |-> x_time, edge |-> edge,
                 before |-> Phase,
                 after |-> PhaseOf(cycle_mode, waiting_for_first_cycle',
                                   cycle_active'),
                 saved |-> Len(xdata') > Len(xdata),
                 high |-> i_is_high,
                 cycle |-> current_cycle',
                 last_end |-> last_cycle_end_time])
    /\ NoSnapshot
    /\ UNCHANGED <<clock, produced, reading, readQueuePending, monitTimeEnd,
                   graphEnd, stopThread, readQSigRec, cycle_mode, acqVars,
                   probeVars, convVars, timerVars, cfgVars>>

\* after the batch: the stop check, the display snapshot when the refresh
\* interval has elapsed (plot_T_F, one of `choices`; t0 is then set to the
\* time `now`), the reset of readQSigRec, sleep(0.001) and the monitoring
\* time limit.  With `logged` the snapshot emitted is added to the history.
AfterBatchWith(choices, now, logged) ==
    /\ gpc = "after"
    /\ IF stopThread
       THEN /\ gpc' = "final"
            /\ NoSnapshot
            /\ UNCHANGED <<readQSigRec, monitTimeEnd, stopThread, t0,
                           snapshots>>
       ELSE /\ gpc' = "loop"
            /\ readQSigRec' = FALSE
            /\ \E plot_T_F \in choices :
                  /\ t0' = IF plot_T_F THEN now ELSE t0
                  /\ IF plot_T_F /\ Len(xdata_plts) > 0
                     THEN /\ graphUpdate' = <<xdata_plts, ydata_plts>>
                          /\ arrowsUpdate' =
                                IF ~cycle_mode /\ i_channel_transitions # <<>>
                                THEN <<i_channel_transitions, xdata_plts[1],
                                       xdata_plts[Len(xdata_plts)]>>
                                ELSE <<>>
                          /\ snapshots' =
                                IF logged
                                THEN Append(snapshots,
                                            [at |-> now,
                                             seen |-> Len(processed),
                                             window |-> <<xdata_plts,
                                                          ydata_plts>>])
                                ELSE snapshots
                     ELSE NoSnapshot /\ UNCHANGED snapshots
            /\ IF TimeLimitReached(waiting_for_first_cycle, xdata, ReadPeriod)
               THEN /\ monitTimeEnd' = monitTimeEnd + 1
                    /\ stopThread' = TRUE
               ELSE UNCHANGED <<monitTimeEnd, stopThread>>
    /\ UNCHANGED <<daqVars, edgeVars, cycleVars, recordVars, windowVars,
                   signals, graphEnd, processed_count, cycle_mode, processed,
                   acqVars, probeVars, convVars, cfgVars, wall, timer>>

\* after the batch, the time since the last snapshot left open
AfterBatch == AfterBatchWith(BOOLEAN, t0, FALSE)

\* clean exit: graphEndSig with the data of the session
FinalEmit ==
    /\ gpc = "final"
    /\ gpc' = "done"
    /\ graphEnd' = Append(graphEnd,
                          FinalExport(xdata, ydata, ydata_raw, cycle_numbers))
    /\ NoSnapshot
    /\ UNCHANGED <<daqVars, edgeVars, cycleVars, recordVars, windowVars,
                   signals, monitTimeEnd, stopThread, readQSigRec,
                   processed_count, cycle_mode, processed, acqVars,
                   probeVars, convVars, timerVars, cfgVars>>

Next ==
    \/ DaqPut
    \/ readQueue
    \/ stop_Thread
    \/ RunStart
    \/ LoopHead
    \/ BatchHead
    \/ GetEmpty
    \/ GetSample
    \/ AfterBatch
    \/ FinalEmit

Spec == Init /\ [][Next]_vars

\* ---------------------------------------------------------------------
\* The same pipeline with the acquisition side running further ahead, so
\* that several samples wait in the queue
MaxAhead == 2            \* samples waiting in the queue at most

DaqPutAhead == DaqPutUpTo(MaxAhead)

AheadNext ==
    \/ DaqPutAhead
    \/ readQueue
    \/ stop_Thread
    \/ RunStart
    \/ LoopHead
    \/ BatchHead
    \/ GetEmpty
    \/ GetSample
    \/ AfterBatch
    \/ FinalEmit

AheadSpec == Init /\ [][AheadNext]_vars

\* =====================================================================
\* The Edge Detector driven sample by sample, over several sessions
\* =====================================================================
MaxEdgeSamples == 5      \* values given to the Edge Detector in a run
MaxSessions == 2         \* sessions started in a run

\* raw Inductive values: 5 %, the low threshold, 50 %, the high threshold
\* and 95 % of full scale
RawLevels == {1638, i_threshold_low, 16384, i_threshold_high, 31129}

EdgeInit == Init /\ ~cycle_mode

\* MainWindow.process_i_channel_transition(x_time, raw_value)
process_i_channel_transition ==
    /\ i_channel_index # 0
    /\ Len(edge_log) < MaxEdgeSamples
    /\ \E raw_value \in RawLevels :
          LET x_time == clock + 1
              new_state == NewEdgeState(i_channel_state, raw_value)
              edge == EdgeOf(i_channel_state, new_state)
          IN /\ clock' = x_time
             /\ mw_transitions' =
                   IF edge # "NONE"
                   THEN Append(mw_transitions, <<x_time, edge>>)
                   ELSE mw_transitions
             /\ i_channel_state' = new_state
             /\ edge_log' = Append(edge_log,
                   [session |-> session, raw |-> raw_value, t |-> x_time,
                    prev |-> i_channel_state, state |-> new_state,
                    edge |-> edge])
    /\ UNCHANGED <<dataQueue, produced, reading, readQueuePending,
                   i_channel_transitions, cycleVars, recordVars, windowVars,
                   outVars, graphVars, acqVars, session, ui_ops, convVars, timerVars, cfgVars>>

\* faulty variant: the state of the previous session is kept
start_monitoring_keeps_state ==
    /\ session < MaxSessions
    /\ session' = session + 1
    /\ clock' = 0
    /\ UNCHANGED <<dataQueue, produced, reading, readQueuePending, edgeVars,
                   cycleVars, recordVars, windowVars, outVars, graphVars,
                   acqVars, edge_log, ui_ops, convVars, timerVars, cfgVars>>

\* MainWindow.start_monitoring: reset_Data_n_Plot_Vars resets the I channel
\* state and its transitions, startSig restarts the timer of the samples
start_monitoring ==
    /\ session < MaxSessions
    /\ session' = session + 1
    /\ i_channel_state' = "NONE"
    /\ mw_transitions' = <<>>
    /\ clock' = 0
    /\ UNCHANGED <<dataQueue, produced, reading, readQueuePending,
                   i_channel_transitions, cycleVars, recordVars, windowVars,
                   outVars, graphVars, acqVars, edge_log, ui_ops, convVars, timerVars, cfgVars>>

EdgeNext ==
    \/ process_i_channel_transition
    \/ start_monitoring

EdgeSpec == EdgeInit /\ [][EdgeNext]_vars

\* =====================================================================
\* DaqThread.run step by step, with its slots and a consumer of the queue
\* =====================================================================
max_consecutive_failures == 100
\* maxsize of queue.Queue(): 0, no limit
queue_maxsize == 0

\* what a successful read delivers: the loop does not look at the values
DaqReads == {rd \in Reads : rd[1] = 0}

\* faulty variant: one failure more is tolerated
ThresholdReached_late(n) == n > max_consecutive_failures

\* consecutive_failures >= max_consecutive_failures
ThresholdReached(n) == n >= max_consecutive_failures

\* faulty variant: a successful read leaves the count as it is
FailuresAfterSuccess_kept(n) == n

\* consecutive_failures = 0 after a successful read
FailuresAfterSuccess(n) == 0

\* faulty variant: a queue of one slot
PutOutcome_single_slot(q, maxsize) == IF Len(q) >= 1 THEN "full" ELSE "ok"

\* Queue.put(item, timeout=0.1): queue.Full is raised when a limited queue
\* stays full for the timeout
PutOutcome(q, maxsize) ==
    IF maxsize > 0 /\ Len(q) >= maxsize THEN "full" ELSE "ok"

\* The state after DaqThread.__init__
AcqIdle ==
    /\ dpc = "top"
    /\ IsConnected = FALSE
    /\ startsigrec = FALSE
    /\ stopsigrec = FALSE
    /\ daq_stopThread = FALSE
    /\ consecutive_failures = 0
    /\ readErrors = 0
    /\ connectSig = <<>>
    /\ msgLst = <<>>
    /\ fail_run = 0
    /\ dropped = 0

\* The state after DaqThread.__init__ and daqThStart
DaqInit ==
    /\ SessionInit
    /\ ~cycle_mode
    /\ AcqIdle
    /\ ConvIdle

\* faulty variant: a failed connection is tried again
DaqTop_retries ==
    /\ dpc = "top"
    /\ IF daq_stopThread
       THEN /\ dpc' = "done"
            /\ UNCHANGED <<IsConnected, connectSig>>
       ELSE IF ~IsConnected
       THEN \E connected \in BOOLEAN :
               /\ connectSig' = Append(connectSig, connected)
               /\ IsConnected' = connected
               /\ dpc' = IF connected THEN "check" ELSE "top"
       ELSE /\ dpc' = "check"
            /\ UNCHANGED <<IsConnected, connectSig>>
    /\ UNCHANGED <<daqVars, edgeVars, cycleVars, recordVars, windowVars,
                   outVars, graphVars, probeVars, convVars, timerVars, cfgVars, startsigrec,
                   stopsigrec, daq_stopThread, consecutive_failures, msgLst,
                   readErrors, fail_run, dropped>>

\* head of the outer loop; ConnectDaq when not connected
DaqTop ==
    /\ dpc = "top"
    /\ IF daq_stopThread
       THEN /\ dpc' = "done"
            /\ UNCHANGED <<IsConnected, connectSig, daq_stopThread>>
       ELSE IF ~IsConnected
       THEN \E connected \in BOOLEAN :
               /\ connectSig' = Append(connectSig, connected)
               /\ IsConnected' = connected
               /\ daq_stopThread' = ~connected
               /\ dpc' = IF connected THEN "check" ELSE "done"
       ELSE /\ dpc' = "check"
            /\ UNCHANGED <<IsConnected, connectSig, daq_stopThread>>
    /\ UNCHANGED <<daqVars, edgeVars, cycleVars, recordVars, windowVars,
                   outVars, graphVars, probeVars, convVars, timerVars, cfgVars, startsigrec, stopsigrec,
                   consecutive_failures, msgLst, readErrors, fail_run, dropped>>

\* connected: wait for the start signal, or enter the data collection loop
DaqCheck ==
    /\ dpc = "check"
    /\ IF IsConnected /\ ~startsigrec
       THEN /\ dpc' = "top"
            /\ UNCHANGED <<consecutive_failures, fail_run>>
       ELSE IF IsConnected /\ startsigrec
       THEN /\ dpc' = "inner"
            /\ consecutive_failures' = 0
            /\ fail_run' = 0
       ELSE /\ dpc' = "reset"
            /\ UNCHANGED <<consecutive_failures, fail_run>>
    /\ UNCHANGED <<daqVars, edgeVars, cycleVars, recordVars, windowVars,
                   outVars, graphVars, probeVars, convVars, timerVars, cfgVars, IsConnected, startsigrec,
                   stopsigrec, daq_stopThread, msgLst, readErrors, connectSig,
                   dropped>>

\* faulty variant: only the stop flag of the thread ends the reading
KeepReading_ignores_stop(stopsig, stopflag) == ~stopflag

\* while not self.stopsigrec and not self.stopThread
KeepReading(stopsig, stopflag) == ~stopsig /\ ~stopflag

\* condition of the data collection loop
DaqInnerHead ==
    /\ dpc = "inner"
    /\ dpc' = IF KeepReading(stopsigrec, daq_stopThread) THEN "read"
              ELSE "reset"
    /\ UNCHANGED <<daqVars, edgeVars, cycleVars, recordVars, windowVars,
                   outVars, graphVars, probeVars, convVars, timerVars, cfgVars, IsConnected, startsigrec,
                   stopsigrec, daq_stopThread, consecutive_failures, msgLst,
                   readErrors, connectSig, fail_run, dropped>>

\* a failure counted by the handler "except Exception" of the loop body
CountFailure(n) ==
    /\ consecutive_failures' = n + 1
    /\ IF ThresholdReached(n + 1)
       THEN /\ readErrors' = readErrors + 1
            /\ daq_stopThread' = TRUE
            /\ dpc' = "reset"
       ELSE /\ dpc' = "inner"
            /\ UNCHANGED <<readErrors, daq_stopThread>>

\* Read_and_Process_DaqData: a list of values, None, or an exception, for a
\* device that answers with one of `outcomes` and delivers one of `reads`,
\* `max` samples at most
DaqReadFrom(outcomes, reads, max) ==
    /\ dpc = "read"
    /\ \/ /\ "ok" \in outcomes
          /\ produced < max
          /\ \E rd \in reads :
                /\ clock' = clock + rd[3]
                /\ msgLst' = <<rd[1], rd[2], clock + rd[3]>>
          /\ produced' = produced + 1
          /\ consecutive_failures' = FailuresAfterSuccess(consecutive_failures)
          /\ fail_run' = 0
          /\ dpc' = "putcheck"
          /\ UNCHANGED <<readErrors, daq_stopThread>>
       \/ \* None: counted, and raised into the handler at the threshold
          /\ "None" \in outcomes
          /\ fail_run' = fail_run + 1
          /\ IF ThresholdReached(consecutive_failures + 1)
             THEN CountFailure(consecutive_failures + 1)
             ELSE /\ consecutive_failures' = consecutive_failures + 1
                  /\ dpc' = "inner"
                  /\ UNCHANGED <<readErrors, daq_stopThread>>
          /\ UNCHANGED <<clock, msgLst, produced>>
       \/ \* the read raises
          /\ "raise" \in outcomes
          /\ fail_run' = fail_run + 1
          /\ CountFailure(consecutive_failures)
          /\ UNCHANGED <<clock, msgLst, produced>>
    /\ UNCHANGED <<dataQueue, reading, readQueuePending, edgeVars, cycleVars,
                   recordVars, windowVars, outVars, graphVars, probeVars, convVars, timerVars, cfgVars,
                   IsConnected, startsigrec, stopsigrec, connectSig, dropped>>

\* a read of a device that may fail at any time
DaqRead == DaqReadFrom({"ok", "None", "raise"}, DaqReads, MaxSamples)

\* "if not self.stopsigrec": a sample read after a stop request is left
DaqPutCheck ==
    /\ dpc = "putcheck"
    /\ IF stopsigrec
       THEN /\ dpc' = "inner"
            /\ msgLst' = <<>>
       ELSE /\ dpc' = "put"
            /\ UNCHANGED msgLst
    /\ UNCHANGED <<daqVars, edgeVars, cycleVars, recordVars, windowVars,
                   outVars, graphVars, probeVars, convVars, timerVars, cfgVars, IsConnected,
                   startsigrec, stopsigrec, daq_stopThread,
                   consecutive_failures, readErrors, connectSig, fail_run,
                   dropped>>

\* dataQueue.put(msgLst, timeout=0.1) and readQueueSig.emit(); queue.Full
\* goes to the handler of the loop body
DaqPutStep ==
    /\ dpc = "put"
    /\ msgLst' = <<>>
    /\ IF PutOutcome(dataQueue, queue_maxsize) = "ok"
       THEN /\ dataQueue' = Append(dataQueue, msgLst)
            /\ readQueuePending' = readQueuePending + 1
            /\ dpc' = "inner"
            /\ UNCHANGED <<consecutive_failures, readErrors, daq_stopThread,
                           dropped>>
       ELSE /\ dropped' = dropped + 1
            /\ CountFailure(consecutive_failures)
            /\ UNCHANGED <<dataQueue, readQueuePending>>
    /\ UNCHANGED <<clock, produced, reading, edgeVars, cycleVars, recordVars,
                   windowVars, outVars, graphVars, probeVars, convVars, timerVars, cfgVars, IsConnected,
                   startsigrec, stopsigrec, connectSig, fail_run>>

\* faulty variant: the end of an iteration also clears the stop flag of the
\* thread
DaqReset_clears_stop ==
    /\ dpc = "reset"
    /\ startsigrec' = FALSE
    /\ stopsigrec' = FALSE
    /\ daq_stopThread' = FALSE
    /\ dpc' = "top"
    /\ UNCHANGED <<daqVars, edgeVars, cycleVars, recordVars, windowVars,
                   outVars, graphVars, probeVars, convVars, timerVars, cfgVars, IsConnected,
                   consecutive_failures, msgLst, readErrors, connectSig,
                   fail_run, dropped>>

\* end of an iteration of the outer loop
DaqReset ==
    /\ dpc = "reset"
    /\ startsigrec' = FALSE
    /\ stopsigrec' = FALSE
    /\ dpc' = "top"
    /\ UNCHANGED <<daqVars, edgeVars, cycleVars, recordVars, windowVars,
                   outVars, graphVars, probeVars, convVars, timerVars, cfgVars, IsConnected, daq_stopThread,
                   consecutive_failures, msgLst, readErrors, connectSig,
                   fail_run, dropped>>

\* slot of startSig
startSignalRec ==
    /\ clock' = 0
    /\ startsigrec' = TRUE
    /\ stopsigrec' = FALSE
    /\ UNCHANGED <<dataQueue, produced, reading, readQueuePending, edgeVars,
                   cycleVars, recordVars, windowVars, outVars, graphVars,
                   probeVars, convVars, timerVars, cfgVars, dpc, IsConnected, daq_stopThread,
                   consecutive_failures, msgLst, readErrors, connectSig,
                   fail_run, dropped>>

\* faulty variant: the stop of the reading also gives up the connection
stopSignalRec_disconnects ==
    /\ stopsigrec' = TRUE
    /\ IsConnected' = FALSE
    /\ UNCHANGED <<daqVars, edgeVars, cycleVars, recordVars, windowVars,
                   outVars, graphVars, probeVars, convVars, timerVars, cfgVars, dpc,
                   startsigrec, daq_stopThread, consecutive_failures, msgLst,
                   readErrors, connectSig, fail_run, dropped>>

\* slot of stopSig
stopSignalRec ==
    /\ stopsigrec' = TRUE
    /\ UNCHANGED <<daqVars, edgeVars, cycleVars, recordVars, windowVars,
                   outVars, graphVars, probeVars, convVars, timerVars, cfgVars, dpc, IsConnected,
                   startsigrec, daq_stopThread, consecutive_failures, msgLst,
                   readErrors, connectSig, fail_run, dropped>>

\* slot of stopThreadSig (DaqThread.stop_Thread)
stopThreadSigRec ==
    /\ daq_stopThread' = TRUE
    /\ UNCHANGED <<daqVars, edgeVars, cycleVars, recordVars, windowVars,
                   outVars, graphVars, probeVars, convVars, timerVars, cfgVars, dpc, IsConnected,
                   startsigrec, stopsigrec, consecutive_failures, msgLst,
                   readErrors, connectSig, fail_run, dropped>>

\* the consumer: one get_nowait of GraphThread.run on a non-empty queue
get_nowait ==
    /\ dataQueue # <<>>
    /\ dataQueue' = Tail(dataQueue)
    /\ UNCHANGED <<clock, produced, reading, readQueuePending, edgeVars,
                   cycleVars, recordVars, windowVars, outVars, graphVars,
                   probeVars, convVars, timerVars, cfgVars, acqVars>>

DaqNext ==
    \/ DaqTop
    \/ DaqCheck
    \/ DaqInnerHead
    \/ DaqRead
    \/ DaqPutCheck
    \/ DaqPutStep
    \/ DaqReset
    \/ startSignalRec
    \/ stopSignalRec
    \/ stopThreadSigRec
    \/ get_nowait

DaqSpec == DaqInit /\ [][DaqNext]_vars

\* =====================================================================
\* The two loops of a session together, with the requests of the user
\* interface; the device answers every read
\* =====================================================================
MaxLoopSamples == 2      \* samples read in a run of the two loops

\* what a read delivers: the trigger low or high, one second after the last
LoopReads == {rd \in Reads : rd[3] = 1 /\ rd[2] # 16384}

\* The state in which MainWindow.start_monitoring ends: the DaqThread is
\* connected and was waiting for the start signal, the GraphThread is
\* started and the start signal is delivered
LoopsInit ==
    /\ SessionInit
    /\ ConvIdle
    /\ dpc \in {"top", "check"}
    /\ IsConnected = TRUE
    /\ startsigrec = TRUE
    /\ stopsigrec = FALSE
    /\ daq_stopThread = FALSE
    /\ consecutive_failures = 0
    /\ readErrors = 0
    /\ connectSig = <<TRUE>>
    /\ msgLst = <<>>
    /\ fail_run = 0
    /\ dropped = 0

\* a read of a device that answers
DaqReadOk == DaqReadFrom({"ok"}, LoopReads, MaxLoopSamples)

DaqLoop ==
    \/ DaqTop
    \/ DaqCheck
    \/ DaqInnerHead
    \/ DaqReadOk
    \/ DaqPutCheck
    \/ DaqPutStep
    \/ DaqReset

GraphLoop ==
    \/ RunStart
    \/ LoopHead
    \/ BatchHead
    \/ GetEmpty
    \/ GetSample
    \/ AfterBatch
    \/ FinalEmit

LoopsNext ==
    \/ DaqLoop
    \/ GraphLoop
    \/ readQueue
    \/ stopSignalRec
    \/ stop_Thread
    \/ stopThreadSigRec

\* each thread keeps running: the scheduler gives every runnable thread time
LoopsSpec ==
    /\ LoopsInit
    /\ [][LoopsNext]_vars
    /\ WF_vars(DaqLoop)
    /\ WF_vars(GraphLoop)

\* =====================================================================
\* The Acquisition Loop and the calls of the user interface on the
\* DaqThread, the device and the queue
\* =====================================================================
MaxCtrlSamples == 2      \* samples read in a run
MaxConnects == 2         \* connection attempts after which no call closes
                         \* or opens the device again

\* MainWindow.is_monitoring: set with the start signal, cleared with the
\* stop signal
is_monitoring == startsigrec /\ ~stopsigrec

\* an operation on the device or the queue made by the user-interface task
UiOp(name) == [op |-> name, loop_running |-> dpc # "done"]

\* DaqThread.disconnectDaq, run by the user-interface task: as slot of
\* disconnectSig (rem_devs) and called by next_Session
disconnectDaq ==
    /\ ~is_monitoring
    /\ IsConnected
    /\ Len(connectSig) < MaxConnects
    /\ IsConnected' = FALSE
    /\ ui_ops' = ui_ops \cup {UiOp("close_serial")}
    /\ UNCHANGED <<daqVars, edgeVars, cycleVars, recordVars, windowVars,
                   outVars, graphVars, session, edge_log, convVars, timerVars, cfgVars, dpc,
                   startsigrec, stopsigrec, daq_stopThread,
                   consecutive_failures, msgLst, readErrors, connectSig,
                   fail_run, dropped>>

\* DaqThread.ConnectDaq called by next_Session, in a session that follows
\* one of a connected device
ConnectDaq ==
    /\ ~is_monitoring
    /\ connectSig # <<>>
    /\ Len(connectSig) < MaxConnects
    /\ \E connected \in BOOLEAN :
          /\ connectSig' = Append(connectSig, connected)
          /\ IsConnected' = connected
    /\ ui_ops' = ui_ops \cup {UiOp("ConnectDaq")}
    /\ UNCHANGED <<daqVars, edgeVars, cycleVars, recordVars, windowVars,
                   outVars, graphVars, session, edge_log, convVars, timerVars, cfgVars, dpc,
                   startsigrec, stopsigrec, daq_stopThread,
                   consecutive_failures, msgLst, readErrors, fail_run,
                   dropped>>

\* the read of the device made by start_monitoring and next_Session before
\* the start signal
check_i_channel_initial_state ==
    /\ ~is_monitoring
    /\ i_channel_index # 0
    /\ IsConnected
    /\ ui_ops' = ui_ops \cup {UiOp("collect_data")}
    /\ UNCHANGED <<daqVars, edgeVars, cycleVars, recordVars, windowVars,
                   outVars, graphVars, acqVars, session, edge_log, convVars, timerVars, cfgVars>>

\* GraphThread.__init__, run by start_monitoring and next_Session: what is
\* left in the queue is removed
GraphThread_init ==
    /\ ~is_monitoring
    /\ dataQueue # <<>>
    /\ dataQueue' = <<>>
    /\ ui_ops' = ui_ops \cup {UiOp("get_nowait")}
    /\ UNCHANGED <<clock, produced, reading, readQueuePending, edgeVars,
                   cycleVars, recordVars, windowVars, outVars, graphVars,
                   acqVars, session, edge_log, convVars, timerVars, cfgVars>>

\* startSig.emit() of start_monitoring and next_Session: made when the
\* device is connected and no session is monitored
startSig == ~is_monitoring /\ IsConnected /\ startSignalRec

\* MainWindow.stopReading: stopSig.emit() while a session is monitored
stopReading == is_monitoring /\ stopSignalRec

\* a read of a device that answers while it is open
DaqReadOpen ==
    DaqReadFrom(IF IsConnected THEN {"ok"} ELSE {"raise"}, LoopReads,
                MaxCtrlSamples)

CtrlNext ==
    \/ DaqTop
    \/ DaqCheck
    \/ DaqInnerHead
    \/ DaqReadOpen
    \/ DaqPutCheck
    \/ DaqPutStep
    \/ DaqReset
    \/ startSig
    \/ stopReading
    \/ stopThreadSigRec
    \/ disconnectDaq
    \/ ConnectDaq
    \/ check_i_channel_initial_state
    \/ GraphThread_init
    \/ get_nowait

CtrlSpec == DaqInit /\ [][CtrlNext]_vars

\* =====================================================================
\* The pipeline with the acquisition side far ahead: more samples wait in
\* the queue than one batch of GraphThread.run takes
\* =====================================================================
MaxBatchSamples == 24    \* samples produced in a run
LevelChanges == 2        \* reads after which the trigger keeps its level

\* one pass of the read loop of DaqThread.run as in DaqPutUpTo, the queue
\* without limit, together with the slot GraphThread.readQueue run for its
\* readQueueSig (the signal is delivered before the next put); msgLst keeps
\* the sample put last
DaqPutRunUpTo(max) ==
    /\ reading
    /\ produced < max
    /\ \E rd \in LoopReads :
          /\ produced >= LevelChanges => rd[2] = msgLst[2]
          /\ clock' = clock + rd[3]
          /\ msgLst' = <<rd[1], rd[2], clock + rd[3]>>
          /\ dataQueue' = Append(dataQueue, <<rd[1], rd[2], clock + rd[3]>>)
    /\ produced' = produced + 1
    /\ readQSigRec' = TRUE
    /\ UNCHANGED <<reading, readQueuePending, edgeVars, cycleVars,
                   recordVars, windowVars, outVars, gpc, stopThread,
                   processed_count, cycle_mode, processed, probeVars,
                   convVars, timerVars, cfgVars, dpc, IsConnected, startsigrec, stopsigrec,
                   daq_stopThread, consecutive_failures, readErrors,
                   connectSig, fail_run, dropped, timerVars, cfgVars>>

DaqPutRun == DaqPutRunUpTo(MaxBatchSamples)

BatchNext ==
    \/ DaqPutRun
    \/ stop_Thread
    \/ RunStart
    \/ LoopHead
    \/ BatchHead
    \/ GetEmpty
    \/ GetSample
    \/ AfterBatch
    \/ FinalEmit

BatchSpec == Init /\ [][BatchNext]_vars

\* =====================================================================
\* The pipeline with the time of GraphThread.run: perf_counter() advances
\* between the steps of the loop, and the display snapshot follows timer
\* =====================================================================
MaxTimerSamples == 3     \* samples produced in a run
MaxWall == 5             \* ticks of perf_counter() in a run
update_interval == 2     \* refresh_rate_ms / 1000.0, in ticks

\* perf_counter() advances while run() is running
Tick ==
    /\ gpc \notin {"start", "done"}
    /\ wall < MaxWall
    /\ wall' = wall + 1
    /\ UNCHANGED <<daqVars, edgeVars, cycleVars, recordVars, windowVars,
                   outVars, graphVars, acqVars, probeVars, convVars, cfgVars,
                   t0, timer, snapshots>>

\* faulty variant: a snapshot after every batch
RefreshDue_always(elapsed, interval) == TRUE

\* timer >= self.update_interval
RefreshDue(elapsed, interval) == elapsed >= interval

\* t1 = perf_counter(); timer = t1 - t0
LoopHeadTimed == LoopHeadWith(wall - t0)

\* plot_T_F as the timer gives it; t0 = perf_counter()
AfterBatchTimed ==
    AfterBatchWith({RefreshDue(timer, update_interval)}, wall, TRUE)

DaqPutTimed == DaqPutRunUpTo(MaxTimerSamples)

TimerNext ==
    \/ DaqPutTimed
    \/ Tick
    \/ stop_Thread
    \/ RunStart
    \/ LoopHeadTimed
    \/ BatchHead
    \/ GetEmpty
    \/ GetSample
    \/ AfterBatchTimed
    \/ FinalEmit

TimerSpec == Init /\ [][TimerNext]_vars

\* =====================================================================
\* The configuration: the defaults loaded, the DaqConfigWindow, the
\* configuration of the MainWindow and the one a session is started with
\* =====================================================================
\* the program started under any defaults, nothing configured yet
ConfigInit ==
    /\ SessionStart
    /\ ~cycle_mode
    /\ AcqIdle
    /\ ConvIdle
    /\ CONFIG_DEFAULTS \in DefaultsLoaded
    /\ mw_config = MainWindowConfig(CONFIG_DEFAULTS)
    /\ ModuleSelectWin = <<>>
    /\ configSignal = <<>>
    /\ findDeviceButton = FALSE
    /\ session_config = <<>>

\* everything outside the configuration
pipelineVars == <<daqVars, edgeVars, cycleVars, recordVars, windowVars,
                  outVars, graphVars, acqVars, probeVars, convVars,
                  timerVars>>

\* MainWindow.configure: configurationButton is enabled while no device is
\* connected; the DaqConfigWindow opens, modal, with the defaults loaded
configure ==
    /\ session_config = <<>>
    /\ ModuleSelectWin = <<>>
    /\ ModuleSelectWin' = <<loadDefaults(CONFIG_DEFAULTS)>>
    /\ configSignal' = <<>>
    /\ UNCHANGED <<pipelineVars, CONFIG_DEFAULTS, mw_config,
                   findDeviceButton, session_config>>

\* the user changes one widget of the open DaqConfigWindow: a checkbox, a
\* type, the cycle mode checkbox or a text field
EditForm ==
    /\ ModuleSelectWin # <<>>
    /\ \E form \in FormEdits(ModuleSelectWin[1]) :
          /\ form # ModuleSelectWin[1]
          /\ ModuleSelectWin' = <<form>>
    /\ configSignal' = <<>>
    /\ UNCHANGED <<pipelineVars, CONFIG_DEFAULTS, mw_config,
                   findDeviceButton, session_config>>

\* DaqConfigWindow.accept_config, with MainWindow.cnfg_Sig_Received, the
\* slot of configSignal, run within the emission
accept_config ==
    /\ ModuleSelectWin # <<>>
    /\ LET form == ModuleSelectWin[1]
           config == FormConfig(form)
       IN IF ConfigValid(config, form.fields_ok)
          THEN /\ configSignal' = <<config>>
               /\ mw_config' = config
               /\ findDeviceButton' = TRUE
               /\ ModuleSelectWin' = <<>>
          ELSE /\ configSignal' = <<>>
               /\ ModuleSelectWin' = <<[form EXCEPT !.warned = TRUE]>>
               /\ UNCHANGED <<mw_config, findDeviceButton>>
    /\ UNCHANGED <<pipelineVars, CONFIG_DEFAULTS, session_config>>

\* the DaqConfigWindow is closed without accept_config
CloseDialog ==
    /\ ModuleSelectWin # <<>>
    /\ ModuleSelectWin' = <<>>
    /\ configSignal' = <<>>
    /\ UNCHANGED <<pipelineVars, CONFIG_DEFAULTS, mw_config,
                   findDeviceButton, session_config>>

\* MainWindow.find_device and start_monitoring: a session is started with
\* the configuration of the MainWindow as it is
StartSession ==
    /\ findDeviceButton
    /\ ModuleSelectWin = <<>>
    /\ session_config = <<>>
    /\ session_config' = <<mw_config>>
    /\ configSignal' = <<>>
    /\ UNCHANGED <<pipelineVars, CONFIG_DEFAULTS, mw_config,
                   ModuleSelectWin, findDeviceButton>>

\* MainWindow.rem_devs: the device is removed, configurationButton is
\* enabled again
rem_devs ==
    /\ session_config # <<>>
    /\ session_config' = <<>>
    /\ configSignal' = <<>>
    /\ UNCHANGED <<pipelineVars, CONFIG_DEFAULTS, mw_config,
                   ModuleSelectWin, findDeviceButton>>

ConfigNext ==
    \/ configure
    \/ EditForm
    \/ accept_config
    \/ CloseDialog
    \/ StartSession
    \/ rem_devs

ConfigSpec == ConfigInit /\ [][ConfigNext]_vars

\* =====================================================================
\* One read of the device and its conversion, for any list of channel types
\* =====================================================================
MaxChannels == 3         \* channels configured, and one more delivered
MaxConvReads == 1        \* reads converted in a run

\* raw codes a channel delivers: 5 % and 50 % of full scale
RawCodes == {1638, 16384}

ChannelTypeLists == UNION {[1..n -> {"T", "P", "I"}] : n \in 1..MaxChannels}

\* what collect_data delivers: fewer values than channels, as many, or more
DeviceValues == UNION {[1..n -> RawCodes] : n \in 0..(MaxChannels + 1)}

\* ydata_lst of Read_and_Process_DaqData: one value per configured channel,
\* 0.0 where the device delivered none; values beyond the channels are left
Read_and_Process_DaqData(n_channels, values) ==
    [i \in 1..n_channels |-> IF i <= Len(values) THEN values[i] ELSE 0]

\* convert_voltage_to_units with self.channel_types = types
convert_channels(types, voltage_values) ==
    [i \in 1..Len(voltage_values) |->
        ConvertChannel(types, i, voltage_values[i])]

ConvInit ==
    /\ SessionInit
    /\ ~cycle_mode
    /\ AcqIdle
    /\ cfg_types \in ChannelTypeLists
    /\ conv_log = <<>>

\* one read: collect_data, Read_and_Process_DaqData, and the conversion of
\* the sample by GraphThread.run; nothing on the way raises
ReadAndConvert ==
    /\ Len(conv_log) < MaxConvReads
    /\ \E values \in DeviceValues :
          LET ydata_lst == Read_and_Process_DaqData(Len(cfg_types), values)
          IN conv_log' = Append(conv_log,
                [values |-> values,
                 ydata_lst |-> ydata_lst,
                 converted |-> convert_channels(cfg_types, ydata_lst)])
    /\ UNCHANGED <<daqVars, edgeVars, cycleVars, recordVars, windowVars,
                   outVars, graphVars, acqVars, probeVars, cfg_types,
                   timerVars, cfgVars>>

ConvNext == ReadAndConvert

ConvSpec == ConvInit /\ [][ConvNext]_vars

\* =====================================================================
\* Properties
\* =====================================================================

\* --- vocabulary over the history of processed samples ----------------
IsStart(e) == e.after = "ACTIVE" /\ e.before # "ACTIVE"
IsEnd(e) == e.before = "ACTIVE" /\ e.after = "IDLE"
NumSaved == Cardinality({k \in 1..Len(processed) : processed[k].saved})

\* timestamp of the sample on which cycle n started / ended
StartTimeOf(n) ==
    processed[CHOOSE k \in 1..Len(processed) :
                 IsStart(processed[k]) /\ processed[k].cycle = n].t
HasEnded(n) ==
    \E k \in 1..Len(processed) : IsEnd(processed[k]) /\ processed[k].cycle = n
EndTimeOf(n) ==
    processed[CHOOSE k \in 1..Len(processed) :
                 IsEnd(processed[k]) /\ processed[k].cycle = n].t

\* the entries of a sequence of the SessionRecord that are tagged with
\* cycle n, in order
TaggedIdx(n) == {i \in 1..Len(cycle_numbers) : cycle_numbers[i] = n}
Tagged(seq, n) ==
    LET upto[i \in 0..Len(cycle_numbers)] ==
            IF i = 0 THEN <<>>
            ELSE IF cycle_numbers[i] = n THEN Append(upto[i - 1], seq[i])
            ELSE upto[i - 1]
    IN upto[Len(cycle_numbers)]
\* the timestamps of the saved samples, in order
SavedTimes ==
    LET idx == {k \in 1..Len(processed) : processed[k].saved}
    IN [i \in 1..Cardinality(idx) |->
           processed[CHOOSE k \in idx :
                        Cardinality({j \in idx : j < k}) = i - 1].t]
LastProcessed == processed[Len(processed)]

\* C1: graphEndSig is emitted exactly once per run of the Processing Loop,
\* when the loop ends and never again (also when stop is requested again or
\* after the end), and it carries the whole SessionRecord as it stood at
\* termination: times, converted values, raw values and cycle numbers, one
\* entry per saved sample.
C1_FinalExportOnce ==
    /\ Len(graphEnd) = (IF gpc = "done" THEN 1 ELSE 0)
    /\ gpc = "done" =>
          /\ graphEnd[1] = <<xdata, ydata, ydata_raw, cycle_numbers>>
          /\ Len(graphEnd[1][1]) = NumSaved
          /\ Len(graphEnd[1][2]) = NumSaved
          /\ Len(graphEnd[1][3]) = NumSaved
          /\ \A i \in 1..NumSaved :
                graphEnd[1][2][i] = convert_voltage_to_units(graphEnd[1][3][i])

C1_Witness ==
    /\ gpc = "done"
    /\ Len(graphEnd) = 1
    /\ Len(graphEnd[1][1]) >= 2
    /\ ~reading

\* C2: while IDLE a cycle starts on a processed sample only if the Edge
\* Detector emits a RISING event on that same sample and at least 2.0 s
\* separate the sample from the last cycle's end.
C2_StartOnlyOnRisingAfterDebounce ==
    \A k \in 1..Len(processed) :
        (processed[k].before = "IDLE" /\ processed[k].after = "ACTIVE")
        => /\ processed[k].edge = "UP"
           /\ processed[k].t - processed[k].last_end >= DebounceSeconds

\* C3: while IDLE a RISING event at least 2.0 s (2.0 s included) after the
\* last cycle's end starts the next cycle: number + 1, start time = the
\* sample's timestamp, DisplayWindow cleared, phase ACTIVE, cycleStarted.
C3_RisingAfterDebounceStartsCycle ==
    \A k \in 1..Len(processed) :
        (/\ processed[k].before = "IDLE"
         /\ processed[k].edge = "UP"
         /\ processed[k].t - processed[k].last_end >= DebounceSeconds)
        => /\ processed[k].after = "ACTIVE"
           /\ processed[k].cycle = processed[k - 1].cycle + 1
           /\ k = Len(processed) =>
                 /\ cycle_start_time = processed[k].t
                 /\ xdata_plts = <<>>
                 /\ signals[Len(signals)] =
                       [sig |-> "cycleStarted", n |-> current_cycle]

\* C4: the segmenter starts in WAITING, nothing is saved or displayed while
\* WAITING, and the first cycle starts exactly on a RISING transition of
\* the Inductive channel, as cycle 1.
C4_FirstCycleOnRising ==
    /\ (cycle_mode /\ gpc = "start") => Phase = "WAITING"
    /\ Phase = "WAITING" => (xdata = <<>> /\ xdata_plts = <<>>)
    /\ \A k \in 1..Len(processed) :
          processed[k].before = "WAITING"
          => /\ ~processed[k].saved
             /\ processed[k].after = "ACTIVE"
                => (processed[k].edge = "UP" /\ processed[k].cycle = 1)

\* C5: in cycle mode every SessionRecord entry has time = timestamp of its
\* sample - timestamp of the sample that started its cycle (so >= 0) and is
\* tagged with that cycle's number; every sample processed while ACTIVE on
\* which no FALLING transition occurs is saved this way and is the newest
\* entry of the DisplayWindow.
C5_CycleRecordsRelativeTime ==
    cycle_mode =>
       /\ Len(xdata) = NumSaved
       /\ Len(cycle_numbers) = NumSaved
       /\ \A i \in 1..Len(xdata) :
             /\ xdata[i] = SavedTimes[i] - StartTimeOf(cycle_numbers[i])
             /\ xdata[i] >= 0
       /\ \A k \in 1..Len(processed) :
             /\ (processed[k].before = "ACTIVE" /\ processed[k].edge # "DOWN")
                   => processed[k].saved
             /\ processed[k].saved =>
                   cycle_numbers[Cardinality({j \in 1..k : processed[j].saved})]
                      = processed[k].cycle
       /\ (Len(processed) > 0 /\ LastProcessed.saved) =>
             /\ xdata_plts[Len(xdata_plts)] = xdata[Len(xdata)]
             /\ \A c \in 1..n_sensors :
                   ydata_plts[c][Len(ydata_plts[c])] = ydata[Len(ydata)][c]

C5_Witness ==
    /\ cycle_mode
    /\ cycle_start_time = 2
    /\ xdata = <<1, 1 + MaxDt>>
    /\ cycle_numbers = <<1, 1>>
    /\ \E k \in 1..Len(processed) :
          /\ processed[k].before = "ACTIVE"
          /\ processed[k].saved
          /\ ydata_raw[1][2] = 16384

\* C6 (as claimed): the first saved sample of every cycle has local time
\* 0.0, the sample on which the cycle starts being saved itself.
C6_FirstRecordAtZero ==
    cycle_mode =>
       \A i \in 1..Len(xdata) :
           (i = 1 \/ cycle_numbers[i - 1] # cycle_numbers[i]) => xdata[i] = 0

\* C6 (amended): neither the sample on which a cycle starts nor the one on
\* which it ends is saved; the saved samples of a cycle are those processed
\* between the two, beginning with the sample after the start, so their
\* local times are greater than 0 and less than (end - start).
C6_RecordsStrictlyInsideCycle ==
    cycle_mode =>
       /\ \A k \in 1..Len(processed) :
             /\ IsStart(processed[k]) => ~processed[k].saved
             /\ IsEnd(processed[k]) => ~processed[k].saved
             /\ (IsStart(processed[k]) /\ k < Len(processed)
                 /\ processed[k + 1].edge # "DOWN") => processed[k + 1].saved
       /\ \A i \in 1..Len(xdata) :
             /\ xdata[i] > 0
             /\ HasEnded(cycle_numbers[i]) =>
                   xdata[i] < EndTimeOf(cycle_numbers[i])
                              - StartTimeOf(cycle_numbers[i])

C6_Witness ==
    /\ cycle_mode
    /\ Phase = "IDLE"
    /\ current_cycle = 1
    /\ Len(xdata) = 2
    /\ xdata[1] > 0

\* C7: on the sample where a FALLING transition occurs while ACTIVE the
\* phase becomes IDLE, the sample's timestamp becomes the last cycle end and
\* exactly one cycleEnded(n, times, series) is emitted, n the current cycle
\* number and (times, series) the SessionRecord entries tagged n, in order,
\* the series per channel.
CycleEndedSignals == {j \in 1..Len(signals) : signals[j].sig = "cycleEnded"}

C7_CycleEndedCarriesCycle ==
    cycle_mode =>
       /\ \A k \in 1..Len(processed) :
             (processed[k].before = "ACTIVE" /\ processed[k].edge = "DOWN")
             => /\ processed[k].after = "IDLE"
                /\ \E j \in CycleEndedSignals :
                      signals[j].n = processed[k].cycle
                /\ k = Len(processed) =>
                      /\ last_cycle_end_time = processed[k].t
                      /\ signals[Len(signals)].sig = "cycleEnded"
                      /\ signals[Len(signals)].n = current_cycle
       /\ Cardinality(CycleEndedSignals)
             = Cardinality({k \in 1..Len(processed) : IsEnd(processed[k])})
       /\ \A j \in CycleEndedSignals :
             LET n == signals[j].n
                 times == Tagged(xdata, n)
                 rows == Tagged(ydata, n)
             IN /\ \A j2 \in CycleEndedSignals : signals[j2].n = n => j2 = j
                /\ signals[j].xdata = times
                /\ IF Len(times) = 0 THEN signals[j].ydata = <<>>
                   ELSE /\ Len(signals[j].ydata) = n_sensors
                        /\ \A c \in 1..n_sensors :
                              /\ Len(signals[j].ydata[c]) = Len(times)
                              /\ \A k \in 1..Len(times) :
                                    signals[j].ydata[c][k] = rows[k][c]

C7_Witness ==
    /\ cycle_mode
    /\ Len(processed) > 0
    /\ LastProcessed.before = "ACTIVE"
    /\ LastProcessed.edge = "DOWN"
    /\ signals[Len(signals)].sig = "cycleEnded"
    /\ Len(signals[Len(signals)].xdata) = 2

C9_WindowWithinCapacity ==
    ~cycle_mode =>
       /\ Len(xdata_plts) <= NDisplayPoints
       /\ \A c \in 1..n_sensors : Len(ydata_plts[c]) <= NDisplayPoints
       /\ xdata_plts = SubSeq(xdata, Len(xdata) - Len(xdata_plts) + 1, Len(xdata))

\* C10: in cycle mode the DisplayWindow is the series of the current cycle
\* only: empty while WAITING, empty again when a cycle starts, one entry per
\* saved sample of the current cycle whatever their number, and no entry of
\* an earlier cycle.
C10_WindowIsCurrentCycle ==
    cycle_mode =>
       /\ Phase = "WAITING" => xdata_plts = <<>>
       /\ xdata_plts = Tagged(xdata, current_cycle)
       /\ LET tagged_ydata == Tagged(ydata, current_cycle)
          IN \A c \in 1..n_sensors :
                /\ Len(ydata_plts[c]) = Len(xdata_plts)
                /\ \A k \in 1..Len(xdata_plts) :
                      ydata_plts[c][k] = tagged_ydata[k][c]
       /\ (Len(processed) > 0 /\ IsStart(LastProcessed)) => xdata_plts = <<>>

C10_Witness ==
    /\ cycle_mode
    /\ current_cycle = 2
    /\ Len(processed) > 0
    /\ IsStart(LastProcessed)
    /\ Len(xdata) >= 1
    /\ xdata_plts = <<>>

IsPrefix(s, t) == Len(s) <= Len(t) /\ SubSeq(t, 1, Len(s)) = s

\* C11: the SessionRecord is append-only: its four lists have the length
\* of the number of processed samples that were saved, a sample processed
\* while WAITING or IDLE adds no entry, and every step of the program leaves
\* the entries already present as they are (the lists only grow, by one
\* entry per saved sample, and not at all once the loop has ended).
C11_Lengths ==
    /\ Len(xdata) = NumSaved
    /\ Len(ydata) = NumSaved
    /\ Len(ydata_raw) = NumSaved
    /\ cycle_mode => Len(cycle_numbers) = NumSaved
    /\ \A k \in 1..Len(processed) :
          processed[k].before \in {"WAITING", "IDLE"} => ~processed[k].saved

C11_Step ==
    /\ IsPrefix(xdata, xdata')
    /\ IsPrefix(ydata, ydata')
    /\ IsPrefix(ydata_raw, ydata_raw')
    /\ IsPrefix(cycle_numbers, cycle_numbers')
    /\ Len(xdata') <= Len(xdata) + 1
    /\ (Len(xdata') > Len(xdata)) => (Len(processed') > Len(processed))
    /\ gpc \in {"final", "done"} => UNCHANGED recordVars

C11_RecordAppendOnly == []C11_Lengths /\ [][C11_Step]_vars

C11_Witness ==
    /\ cycle_mode
    /\ gpc = "done"
    /\ Len(xdata) = 1
    /\ Len(processed) = 4
    /\ processed[1].before = "WAITING"
    /\ processed[2].saved
    /\ processed[4].before = "IDLE"

\* C12: the current cycle number is 0 until the first cycle starts, the
\* k-th cycleStarted notification carries k, the number never decreases
\* from one processed sample to the next (it grows by at most 1), and the
\* cycle tags of the SessionRecord are >= 1 and non-decreasing.
CycleStartedSignals == {j \in 1..Len(signals) : signals[j].sig = "cycleStarted"}

C12_CycleNumbersIncrease ==
    /\ current_cycle = Cardinality(CycleStartedSignals)
    /\ \A j \in CycleStartedSignals :
          signals[j].n = Cardinality({i \in CycleStartedSignals : i <= j})
    /\ (Phase = "WAITING" \/ ~cycle_mode) => current_cycle = 0
    /\ (cycle_mode /\ Phase # "WAITING") => current_cycle >= 1
    /\ \A k \in 1..Len(processed) :
          LET prev == IF k = 1 THEN 0 ELSE processed[k - 1].cycle
          IN /\ processed[k].cycle \in {prev, prev + 1}
             /\ processed[k].cycle = prev + 1 <=> IsStart(processed[k])
    /\ \A i \in 1..Len(cycle_numbers) :
          /\ cycle_numbers[i] >= 1
          /\ cycle_numbers[i] <= current_cycle
          /\ i > 1 => cycle_numbers[i - 1] <= cycle_numbers[i]

C12_Witness ==
    /\ current_cycle = 2
    /\ Cardinality(CycleStartedSignals) = 2
    /\ cycle_numbers = <<2>>

\* C13: with cycle mode off every sample taken from the queue is saved with
\* its session-relative timestamp and is the newest entry of the
\* DisplayWindow, the list of cycle numbers stays empty and no cycleWaiting,
\* cycleStarted or cycleEnded notification is emitted.
C13_NonCycleBypass ==
    ~cycle_mode =>
       /\ Len(xdata) = Len(processed)
       /\ \A k \in 1..Len(processed) :
             /\ processed[k].saved
             /\ xdata[k] = processed[k].t
             /\ ydata[k] = convert_voltage_to_units(ydata_raw[k])
       /\ Len(xdata) > 0 =>
             /\ xdata_plts[Len(xdata_plts)] = xdata[Len(xdata)]
             /\ \A c \in 1..n_sensors :
                   ydata_plts[c][Len(ydata_plts[c])] = ydata[Len(ydata)][c]
       /\ cycle_numbers = <<>>
       /\ current_cycle = 0
       /\ signals = <<>>

C13_Witness ==
    /\ ~cycle_mode
    /\ Len(processed) = 3
    /\ xdata = <<1, 2, 2 + MaxDt>>
    /\ i_channel_state = "HIGH"
    /\ mw_transitions # <<>>

\* C16: the converted value of the Inductive channel saved for a sample is
\* the Edge Detector's state for that sample (LOW = 0, HIGH = 1): in the
\* band between the thresholds the conversion retains the previous digital
\* value, 0 when there is none.  Stated with cycle mode off, where every
\* sample is saved in the step that classifies it.
C16_ConvertedIsEdgeState ==
    (~cycle_mode /\ Len(ydata) > 0) =>
       ydata[Len(ydata)][i_channel_index]
          = (IF i_channel_state = "HIGH" THEN 1 ELSE 0)

\* --- vocabulary over the history of the Edge Detector ----------------
FirstOfSession(k) == k = 1 \/ edge_log[k - 1].session # edge_log[k].session
\* the <<timestamp, direction>> of the events of the current session
SessionEvents ==
    LET idx == {k \in 1..Len(edge_log) :
                   edge_log[k].session = session /\ edge_log[k].edge # "NONE"}
    IN [i \in 1..Cardinality(idx) |->
           LET k == CHOOSE k \in idx : Cardinality({j \in idx : j < k}) = i - 1
           IN <<edge_log[k].t, edge_log[k].edge>>]

\* C14: for every sequence of raw Inductive values the state after a sample
\* is LOW below the low threshold, HIGH above the high threshold and the
\* previous state otherwise (LOW when there is none); a RISING event is
\* recorded exactly where the state goes LOW to HIGH and a FALLING event
\* exactly where it goes HIGH to LOW, with the sample's timestamp; a sample in
\* the band records nothing.  5 %, 50 %, 95 %, 50 %, 5 % gives LOW, LOW, HIGH,
\* HIGH, LOW with RISING on the third and FALLING on the fifth sample.
C14_EdgeHysteresis ==
    /\ \A k \in 1..Len(edge_log) :
          LET e == edge_log[k]
              before == IF FirstOfSession(k) THEN "NONE"
                        ELSE edge_log[k - 1].state
              in_band == e.raw >= i_threshold_low /\ e.raw <= i_threshold_high
          IN /\ e.prev = before
             /\ e.raw < i_threshold_low => e.state = "LOW"
             /\ e.raw > i_threshold_high => e.state = "HIGH"
             /\ in_band => e.state = (IF before = "NONE" THEN "LOW" ELSE before)
             /\ e.edge = "UP" <=> (before = "LOW" /\ e.state = "HIGH")
             /\ e.edge = "DOWN" <=> (before = "HIGH" /\ e.state = "LOW")
             /\ e.edge \in {"UP", "DOWN", "NONE"}
             /\ in_band => e.edge = "NONE"
    /\ mw_transitions = SessionEvents
    /\ (/\ Len(edge_log) = 5
        /\ session = 1
        /\ [k \in 1..5 |-> edge_log[k].raw] = <<1638, 16384, 31129, 16384, 1638>>)
       => /\ [k \in 1..5 |-> edge_log[k].state]
                = <<"LOW", "LOW", "HIGH", "HIGH", "LOW">>
          /\ mw_transitions = <<<<3, "UP">>, <<5, "DOWN">>>>

C14_Witness ==
    /\ Len(edge_log) = 5
    /\ session = 1
    /\ [k \in 1..5 |-> edge_log[k].raw] = <<1638, 16384, 31129, 16384, 1638>>
    /\ i_channel_state = "LOW"
    /\ Len(mw_transitions) = 2

\* C15: no transition is recorded on the first sample of a session, whatever
\* its raw value, in the first session and in every later one: the Edge
\* Detector starts each session without a previous state.
C15_NoEventOnFirstSample ==
    \A k \in 1..Len(edge_log) :
        FirstOfSession(k) =>
           /\ edge_log[k].prev = "NONE"
           /\ edge_log[k].edge = "NONE"
           /\ \A j \in 1..Len(mw_transitions) :
                 edge_log[k].session = session
                    => mw_transitions[j][1] > edge_log[k].t

C15_Witness ==
    /\ session = 2
    /\ Len(edge_log) >= 2
    /\ edge_log[Len(edge_log)].session = 2
    /\ edge_log[Len(edge_log) - 1].session = 1
    /\ edge_log[Len(edge_log) - 1].state = "LOW"
    /\ edge_log[Len(edge_log)].raw = 31129
    /\ i_channel_state = "HIGH"
    /\ mw_transitions = <<>>

C17_Counting ==
    /\ readErrors <= 1
    /\ fail_run <= max_consecutive_failures
    /\ readErrors = 1 <=> fail_run = max_consecutive_failures
    /\ readErrors = 1 => (daq_stopThread /\ dpc \in {"reset", "top", "done"})
    /\ dpc \in {"inner", "read"} => consecutive_failures = fail_run

C17_AfterError ==
    readErrors = 1 =>
       /\ Len(dataQueue') <= Len(dataQueue)
       /\ produced' = produced
       /\ readErrors' = 1
       /\ dpc' \in {"reset", "top", "done"}

C18_OnlyConsecutive ==
    /\ readErrors > 0 => fail_run >= max_consecutive_failures
    /\ dpc \in {"putcheck", "put"}
          => (consecutive_failures = 0 /\ fail_run = 0)
    /\ consecutive_failures < max_consecutive_failures
          => consecutive_failures = fail_run

C18_StopOnlyAtThreshold ==
    (~daq_stopThread /\ daq_stopThread' /\ dpc \in {"read", "putcheck", "put"}
        /\ dpc' # dpc)
       => (fail_run' >= max_consecutive_failures /\ readErrors' = readErrors + 1)

C18_TransientFailuresTolerated ==
    []C18_OnlyConsecutive /\ [][C18_StopOnlyAtThreshold]_vars

C18_Witness ==
    /\ produced >= 2
    /\ fail_run = max_consecutive_failures - 1
    /\ dpc = "read"
    /\ readErrors = 0
    /\ ~daq_stopThread
    /\ dataQueue # <<>>

\* C19: the queue has a fixed finite capacity that the number of queued
\* samples never exceeds, however slowly the consumer takes them: the
\* capacity the queue is created with or, when it is created without one,
\* some capacity below the number of samples produced.
C19_QueueWithinCapacity ==
    Len(dataQueue) <= (IF queue_maxsize > 0 THEN queue_maxsize
                       ELSE MaxSamples - 1)

\* C20: the producer never blocks on the enqueue: whenever the loop is at
\* the put it can take its next step, and that step either enqueues the
\* sample or, the queue being full after the bounded wait, drops it, counts
\* one failure and goes on (to the next read, or to the end at the
\* threshold).  The queue being created without a limit, no sample is ever
\* dropped for a full queue.
C20_PutCompletes ==
    /\ dpc = "put" => (msgLst # <<>> /\ ENABLED DaqPutStep)
    /\ dropped = 0

C20_PutStep ==
    (dpc = "put" /\ dpc' # "put") =>
       \/ /\ dataQueue' = Append(dataQueue, msgLst)
          /\ consecutive_failures' = consecutive_failures
          /\ dpc' = "inner"
       \/ /\ dataQueue' = dataQueue
          /\ dropped' = dropped + 1
          /\ consecutive_failures' = consecutive_failures + 1
          /\ dpc' \in {"inner", "reset"}

C30_SuspendsOnlyWhenEmpty ==
    ~ /\ dataQueue # <<>>
      /\ ~stopThread
      /\ gpc = "loop"
      /\ ~readQSigRec
      /\ readQueuePending = 0
      /\ ~TimeLimitReached(waiting_for_first_cycle, xdata, ReadPeriod)

\* --- order of processing --------------------------------------------
\* C24: the samples are processed in the order in which they were produced,
\* none twice and none skipped: the timestamps of the processed samples
\* followed by those of the queued samples are the stamps of all samples
\* produced, in strictly increasing order and ending at the latest stamp.
C24_ProcessedInOrder ==
    LET np == Len(processed)
        nq == Len(dataQueue)
    IN  /\ np + nq = produced
        /\ \A k \in 1..(np - 1) : processed[k].t < processed[k + 1].t
        /\ \A k \in 1..(nq - 1) :
              x_time_of(dataQueue[k]) < x_time_of(dataQueue[k + 1])
        /\ (np > 0 /\ nq > 0) => processed[np].t < x_time_of(dataQueue[1])
        /\ nq > 0 => x_time_of(dataQueue[nq]) = clock
        /\ (nq = 0 /\ np > 0) => processed[np].t = clock

\* two samples taken in one batch after a sample of an earlier batch, and two
\* more waiting in the queue
C24_Witness ==
    /\ Len(processed) >= 2
    /\ processed_count = 1
    /\ gpc = "get"
    /\ Len(dataQueue) = 2

\* --- one trigger window, end to end ---------------------------------
\* the samples processed so far are a LOW samples, then b HIGH samples, then
\* LOW samples, the trigger level being the one run() derives (i_is_high)
OneHighWindow(a, b) ==
    /\ a >= 1
    /\ b >= 1
    /\ a + b < Len(processed)
    /\ \A k \in 1..Len(processed) :
          processed[k].high <=> (a < k /\ k <= a + b)

\* one cycleStarted(1), one cycleEnded(1), every entry tagged 1, no entry
\* from a LOW sample
OneCycleOnly ==
    /\ Cardinality(CycleStartedSignals) = 1
    /\ \A j \in CycleStartedSignals : signals[j].n = 1
    /\ Cardinality(CycleEndedSignals) = 1
    /\ \A j \in CycleEndedSignals : signals[j].n = 1
    /\ \A i \in 1..Len(cycle_numbers) : cycle_numbers[i] = 1
    /\ \A k \in 1..Len(processed) : processed[k].saved => processed[k].high
    /\ Len(xdata) = Len(cycle_numbers)
    /\ Len(ydata) = Len(cycle_numbers)

PressureChannels == {i \in 1..Len(cfg_types) : cfg_types[i] = "P"}
\* channel i is the k-th Pressure channel, k counted from 0
IsKthPressure(i, k) ==
    /\ i \in PressureChannels
    /\ Cardinality({j \in PressureChannels : j < i}) = k

\* C29: whatever the list of channel types, the k-th Pressure channel
\* (k from 0, counted among the Pressure channels only) is converted with
\* the first calibration constant when k is even and with the second when k
\* is odd.
C29_PressureConstantsAlternate ==
    \A e \in 1..Len(conv_log) :
        \A i \in 1..Len(cfg_types) : \A k \in 0..(MaxChannels + 1) :
            IsKthPressure(i, k) =>
                conv_log[e].converted[i] =
                    conv_log[e].ydata_lst[i]
                        * (IF k % 2 = 0 THEN PressFactor0 ELSE PressFactor1)

\* Temperature, Pressure, Pressure: the second Pressure channel, third of
\* all, has been converted with the second constant
C29_Witness ==
    /\ cfg_types = <<"T", "P", "P">>
    /\ Len(conv_log) = 1
    /\ Len(conv_log[1].values) = 3
    /\ conv_log[1].converted[3] = conv_log[1].values[3] * PressFactor1
    /\ PressFactor0 # PressFactor1

\* C28: a read that delivers another number of values than there are
\* channels gives no sample: nothing of it is padded, cut and converted.
C28_MismatchGivesNoSample ==
    \A e \in 1..Len(conv_log) :
        Len(conv_log[e].values) # Len(cfg_types)
            => conv_log[e].ydata_lst = <<>> /\ conv_log[e].converted = <<>>

\* --- connection and start / stop of reading --------------------------
\* C21: when the connection attempt of the Acquisition Loop fails, the loop
\* has reported the status false, has set its stop flag and has ended; that
\* attempt is its last, and when it was the first the loop has never asked
\* the device for a sample nor enqueued one, whatever requests arrive.
C21_FailedConnectionEndsLoop ==
    /\ \A k \in 1..Len(connectSig) :
          ~connectSig[k] =>
              /\ k = Len(connectSig)
              /\ ~IsConnected
              /\ daq_stopThread
              /\ dpc = "done"
    /\ (connectSig # <<>> /\ ~connectSig[1]) =>
          /\ produced = 0
          /\ fail_run = 0
          /\ consecutive_failures = 0
          /\ readErrors = 0
          /\ msgLst = <<>>
          /\ dataQueue = <<>>
          /\ readQueuePending = 0

\* the first connection has failed, and a start request has arrived since
C21_Witness ==
    /\ connectSig = <<FALSE>>
    /\ dpc = "done"
    /\ startsigrec

\* the loop is instructed to read: a start request and no stop request since
Instructed == startsigrec /\ ~stopsigrec
\* a step in which the device is asked for a sample
RequestStep == produced' # produced \/ fail_run' > fail_run
\* a step in which a sample is put on the queue
EnqueueStep == Len(dataQueue') > Len(dataQueue)

\* C22 (as claimed): while connected and not instructed to read, no step of
\* the loop asks the device for a sample or enqueues one.
C22_NothingWhileNotInstructed ==
    [][(IsConnected /\ ~Instructed) => (~RequestStep /\ ~EnqueueStep)]_vars

\* C22 (amended): the loop is in an iteration of its read loop only after a
\* start request, and it begins an iteration, and passes the check before
\* the put, only while connected and instructed to read.  So without a start
\* request nothing is requested or enqueued, and a stop request is followed
\* by at most the request and the put of the iteration in progress.
C22_InReadLoopOnlyStarted ==
    dpc \in {"inner", "read", "putcheck", "put"} => (IsConnected /\ startsigrec)

C22_IterationStep ==
    /\ (dpc' = "read" /\ dpc # "read") => (IsConnected' /\ Instructed')
    /\ (dpc' = "put" /\ dpc # "put") => (IsConnected' /\ Instructed')
    /\ RequestStep => dpc = "read"
    /\ EnqueueStep => dpc = "put"

C22_IterationsOnlyWhileInstructed ==
    []C22_InReadLoopOnlyStarted /\ [][C22_IterationStep]_vars

\* the loop has read, was told to stop, and idles connected
C22_Witness ==
    /\ IsConnected
    /\ ~startsigrec
    /\ ~stopsigrec
    /\ dpc = "check"
    /\ produced >= 1
    /\ ~daq_stopThread

\* --- termination of the two loops ------------------------------------
\* C26: once its stop flag is set, each loop ends: the Acquisition Loop
\* leaves its read loop and its outer loop, the Processing Loop leaves its
\* batch loop and its outer loop and emits the final data, in whatever state
\* of the loop the flag is set.
\* the read that the bound on the samples of a run keeps from returning
ReadPending == dpc = "read" /\ produced >= MaxLoopSamples

StopRequestStep == ~stopsigrec /\ stopsigrec'

\* a step of the Acquisition Loop
AcqLoopStep == dpc' # dpc

C25_OnlyLoopsUseDeviceAndQueue == \A o \in ui_ops : ~o.loop_running

\* --- size of a batch ---------------------------------------------------
\* a step in which GraphThread.run takes a sample from the queue
DequeueStep == Len(processed') = Len(processed) + 1

\* the samples taken from the queue since the last stop check and snapshot
\* emission of run(): processed_count, which is set to 0 when a batch is
\* entered and goes up by one with every sample taken but the one on which
\* the wait for the first cycle is left for a stop
C31_CountStep ==
    /\ DequeueStep =>
          /\ processed_count < BatchMax
          /\ \/ processed_count' = processed_count + 1 /\ gpc' = "batch"
             \/ processed_count' = processed_count /\ gpc' = "after"
    /\ (~DequeueStep /\ processed_count' # processed_count) =>
          (gpc = "loop" /\ gpc' = "batch" /\ processed_count' = 0)
    /\ (gpc = "batch" /\ gpc' = "get") => processed_count < BatchMax
    /\ (gpc = "after" /\ gpc' # gpc) => gpc' \in {"loop", "final"}

\* C31: in one wake the Processing Loop takes at most 20 samples from the
\* queue before it reaches its stop check and its snapshot emission, in every
\* mode and phase.
C31_BatchAtMostTwenty ==
    [](processed_count <= BatchMax) /\ [][C31_CountStep]_vars

\* a batch of 20 samples has ended in a cycle, with a sample left waiting
C31_Witness ==
    /\ processed_count = BatchMax
    /\ gpc = "after"
    /\ dataQueue # <<>>
    /\ Phase = "ACTIVE"

\* --- cadence of the display snapshots ---------------------------------
\* a step in which graphUpdateSig is emitted
SnapshotStep == gpc = "after" /\ gpc' # gpc /\ graphUpdate' # <<>>

\* C32: a display snapshot is emitted only with a timer of at least the
\* refresh interval and a DisplayWindow that is not empty, and it carries
\* the DisplayWindow as it is at the emission.  Two snapshots in a row, and
\* the entry of run() and the first snapshot, are at least the refresh
\* interval apart, whatever the number of samples processed in between.
C32_SnapshotOnRefreshInterval ==
    /\ [](\A k \in 1..Len(snapshots) :
            /\ snapshots[k].window[1] # <<>>
            /\ snapshots[k].at
                  - (IF k = 1 THEN 0 ELSE snapshots[k - 1].at)
                  >= update_interval)
    /\ [][SnapshotStep =>
            /\ timer >= update_interval
            /\ xdata_plts # <<>>
            /\ graphUpdate' = <<xdata_plts, ydata_plts>>
            /\ Len(snapshots') = Len(snapshots) + 1]_vars

\* two snapshots, with two samples or more processed between them
C32_Witness ==
    /\ Len(snapshots) >= 2
    /\ snapshots[2].seen - snapshots[1].seen >= 2

\* --- axis ranges -------------------------------------------------------
\* a step in which updateYAxisSig is emitted
AxisStep == yAxisUpdates' # yAxisUpdates

\* channels other than the Inductive one
ScaledChannels == {i \in 1..n_sensors : i # i_channel_index}

\* what a step may do to the axis notifications and the historical extremes
C33_AxisStep ==
    /\ AxisStep =>
          /\ DequeueStep
          /\ Len(yAxisUpdates') = Len(yAxisUpdates) + 1
          /\ \E i \in ScaledChannels :
                \/ /\ y_min_hist'[i] # y_min_hist[i]
                   /\ y_min_hist'[i] = <<ydata_plts'[i][Len(ydata_plts'[i])]>>
                \/ /\ y_max_hist'[i] # y_max_hist[i]
                   /\ y_max_hist'[i] = <<ydata_plts'[i][Len(ydata_plts'[i])]>>
    /\ \A i \in 1..n_sensors :
          /\ y_min_hist[i] # <<>> =>
                /\ y_min_hist'[i] # <<>>
                /\ y_min_hist'[i][1] <= y_min_hist[i][1]
          /\ y_max_hist[i] # <<>> =>
                /\ y_max_hist'[i] # <<>>
                /\ y_max_hist'[i][1] >= y_max_hist[i][1]

\* C33: an axis-range notification is emitted only in the processing of a
\* sample that sets a new historical minimum or maximum on a channel other
\* than the Inductive one; the Inductive channel never changes the
\* historical extremes and is reported with the range 0..1 (times 10 here);
\* a historical minimum never goes up and a historical maximum never down.
C33_AxisRangeOnNewExtremum ==
    /\ [](/\ i_channel_index # 0 =>
               /\ y_min_hist[i_channel_index] = <<>>
               /\ y_max_hist[i_channel_index] = <<>>
               /\ \A k \in 1..Len(yAxisUpdates) :
                     yAxisUpdates[k][i_channel_index] = <<0, 10>>)
    /\ [][C33_AxisStep]_vars

\* two notifications, a displayed sample that gave none, and Inductive
\* values of both levels displayed
C33_Witness ==
    /\ i_channel_index # 0
    /\ Len(yAxisUpdates) >= 2
    /\ Len(xdata) > Len(yAxisUpdates)
    /\ \E j, k \in 1..Len(ydata) :
          ydata[j][i_channel_index] # ydata[k][i_channel_index]

\* --- validation of the configuration ----------------------------------
\* a step in which configSignal is emitted
AcceptStep == configSignal' # <<>>

\* a step in which accept_config ends in a warning
RejectStep ==
    /\ ModuleSelectWin' # <<>>
    /\ ModuleSelectWin'[1].warned
    /\ ModuleSelectWin # ModuleSelectWin'

\* exactly 0 or 1 channel is Inductive, and cycle mode has its trigger
OneTrigger(config) ==
    /\ i_count_of(config.channel_types) <= 1
    /\ config.cycle_mode => i_count_of(config.channel_types) = 1

\* C34: configSignal is emitted only with at least one channel selected, at
\* most one of them Inductive, and an Inductive one when cycle mode is
\* enabled; so every session runs with 0 or 1 Inductive channel and a
\* cycle-mode session has its trigger channel.  A rejected configuration
\* leaves the configuration of the MainWindow as it was.
C34_OnlyValidConfigAccepted ==
    /\ [](\A k \in 1..Len(session_config) : OneTrigger(session_config[k]))
    /\ [][/\ AcceptStep =>
               /\ ModuleSelectWin # <<>>
               /\ ModuleSelectWin[1].checked # {}
               /\ configSignal'[1] = FormConfig(ModuleSelectWin[1])
               /\ Len(configSignal'[1].channels) >= 1
               /\ OneTrigger(configSignal'[1])
               /\ mw_config' = configSignal'[1]
          /\ RejectStep => UNCHANGED <<mw_config, session_config>>
          /\ mw_config' # mw_config => AcceptStep]_vars

\* a session in cycle mode with every channel selected, in a program whose
\* defaults make every channel Inductive
C34_Witness ==
    /\ i_count_of(CONFIG_DEFAULTS.channel_types) > 1
    /\ session_config # <<>>
    /\ session_config[1].cycle_mode
    /\ Len(session_config[1].channels) = MaxCfgChannels

\* --- the transition events ---------------------------------------------
\* a sequence of transition events in which the directions alternate and
\* the timestamps do not go down
WellFormedEvents(events) ==
    \A k \in 1..(Len(events) - 1) :
       /\ events[k][2] # events[k + 1][2]
       /\ events[k][1] <= events[k + 1][1]

\* C35: in the sequence of transition events of a session, in the
\* MainWindow and in the copy of the GraphThread, UP and DOWN alternate,
\* the timestamps do not decrease, and the sequence changes only by an
\* event appended at its end.
C35_EventsAlternateAppendOnly ==
    /\ [](/\ WellFormedEvents(mw_transitions)
          /\ WellFormedEvents(i_channel_transitions)
          /\ \A k \in 1..Len(mw_transitions) :
                mw_transitions[k][2] \in {"UP", "DOWN"})
    /\ [][/\ \/ mw_transitions' = mw_transitions
             \/ /\ Len(mw_transitions') = Len(mw_transitions) + 1
                /\ IsPrefix(mw_transitions, mw_transitions')
          /\ IsPrefix(i_channel_transitions, i_channel_transitions')
          /\ i_channel_transitions' # i_channel_transitions =>
                i_channel_transitions' = mw_transitions']_vars

\* three events: a rise, a fall and a rise again
C35_Witness ==
    /\ Len(i_channel_transitions) >= 3
    /\ i_channel_transitions[1][2] = "UP"
    /\ i_channel_transitions[2][2] = "DOWN"
    /\ i_channel_transitions[3][1] > i_channel_transitions[2][1] + 1

\* --- the segmenter and the Edge Detector --------------------------------
\* a step in which cycleEndedSig is emitted
CycleEndStep ==
    /\ Len(signals') = Len(signals) + 1
    /\ signals'[Len(signals')].sig = "cycleEnded"

\* C36: in cycle mode the phase is ACTIVE only with the Edge Detector in
\* state HIGH, and every cycleEnded is emitted on a sample on which the
\* Edge Detector appends a DOWN event with the timestamp of that sample.
C36_SegmenterAgreesWithEdgeDetector ==
    /\ []((cycle_mode /\ Phase = "ACTIVE") => i_channel_state = "HIGH")
    /\ [](\A k \in 1..Len(processed) :
            /\ processed[k].after = "ACTIVE" => processed[k].high
            /\ IsEnd(processed[k]) =>
                  /\ processed[k].edge = "DOWN"
                  /\ <<processed[k].t, "DOWN">> \in
                        {mw_transitions[j] : j \in 1..Len(mw_transitions)})
    /\ [][CycleEndStep =>
            /\ DequeueStep
            /\ IsEnd(processed'[Len(processed')])
            /\ mw_transitions' =
                  Append(mw_transitions,
                         <<processed'[Len(processed')].t, "DOWN">>)]_vars

\* the second cycle is active, after the end of the first
C36_Witness ==
    /\ cycle_mode
    /\ Phase = "ACTIVE"
    /\ current_cycle = 2
    /\ \E k \in 1..Len(signals) : signals[k].sig = "cycleEnded"
    /\ Len(mw_transitions) >= 2

\* --- the lifecycle notifications ----------------------------------------
\* C37: in cycle mode the notifications of a session are cycleWaiting,
\* cycleStarted(1), cycleEnded(1), cycleStarted(2), cycleEnded(2), ...:
\* cycleWaiting once and first, emitted when run() is entered, then
\* cycleStarted and cycleEnded in turn, each cycleEnded with the number of
\* the cycleStarted before it; the sequence only grows at its end.
C37_LifecycleOrder ==
    /\ [](cycle_mode =>
            /\ gpc = "start" => signals = <<>>
            /\ gpc # "start" =>
                  /\ Len(signals) >= 1
                  /\ signals[1].sig = "cycleWaiting"
            /\ \A k \in 2..Len(signals) :
                  /\ signals[k].sig = IF k % 2 = 0 THEN "cycleStarted"
                                      ELSE "cycleEnded"
                  /\ signals[k].n = k \div 2)
    /\ [][cycle_mode =>
            /\ IsPrefix(signals, signals')
            /\ Len(signals') <= Len(signals) + 1]_vars

\* two cycles started and ended in a session
C37_Witness ==
    /\ cycle_mode
    /\ Len(signals) >= 5
    /\ signals[5].sig = "cycleEnded"
    /\ signals[5].n = 2

\* --- alignment of the record -------------------------------------------
\* times, converted values and raw values of equal length, and as many
\* cycle numbers in cycle mode, none otherwise
Aligned(record) ==
    /\ Len(record[2]) = Len(record[1])
    /\ Len(record[3]) = Len(record[1])
    /\ Len(record[4]) = (IF cycle_mode THEN Len(record[1]) ELSE 0)

\* C38: the sequences of the SessionRecord stay aligned: times, converted
\* values and raw values have the same length, the cycle numbers have that
\* length in cycle mode and length 0 otherwise; the same holds for what
\* graphEndSig carries and for what the MainWindow stores of it.
C38_RecordAligned ==
    [](/\ Aligned(<<xdata, ydata, ydata_raw, cycle_numbers>>)
       /\ \A k \in 1..Len(graphEnd) :
             /\ Aligned(graphEnd[k])
             /\ Aligned(receiveXYData(graphEnd[k]))
             /\ receiveXYData(graphEnd[k]) = graphEnd[k])

\* a cycle-mode run has ended with two entries exported and samples that
\* were not saved
C38_Witness ==
    /\ cycle_mode
    /\ gpc = "done"
    /\ Len(graphEnd) = 1
    /\ Len(receiveXYData(graphEnd[1])[4]) = 2
    /\ Len(processed) > 2

\* --- a start request after a stop request -------------------------------
\* the last request to the connected, running loop was a start
StartPending ==
    /\ IsConnected
    /\ ~daq_stopThread
    /\ startsigrec
    /\ ~stopsigrec

\* C39: a start request issued after a stop request, while the loop is
\* connected and not terminated, is never lost: no step of the loop takes
\* back a start request that no stop request has followed.
C39_StartAfterStopNotLost == [][StartPending => startsigrec']_vars

\* --- overshoot of the monitoring duration -------------------------------
\* the entries of the SessionRecord with a time past the monitoring duration
Overshoot == {k \in 1..Len(xdata) : xdata[k] > ReadPeriod}

\* the loop has ended and nothing outside it asked it to stop
EndedByItself == gpc = "done" /\ reading

\* C40: in non-cycle mode at most 20 entries of the SessionRecord, one
\* batch, have a time greater than the monitoring duration; a loop that ends
\* by itself has emitted monitTimeEndSig, which is emitted at most once and
\* before the final export.
C40_OvershootWithinOneBatch ==
    /\ [](~cycle_mode =>
            /\ Cardinality(Overshoot) <= BatchMax
            /\ monitTimeEnd <= 1
            /\ EndedByItself =>
                  /\ monitTimeEnd = 1
                  /\ Overshoot # {}
                  /\ Len(graphEnd) = 1)
    /\ [][(~cycle_mode /\ monitTimeEnd' # monitTimeEnd) =>
            /\ monitTimeEnd' = monitTimeEnd + 1
            /\ graphEnd = <<>>
            /\ graphEnd' = <<>>
            /\ stopThread']_vars

\* the loop has ended by itself with a whole batch past the duration
C40_Witness ==
    /\ ~cycle_mode
    /\ EndedByItself
    /\ monitTimeEnd = 1
    /\ Cardinality(Overshoot) = BatchMax

====
